---- MODULE Spec2Model ----
(***************************************************************************)
(* Order fulfilment and provider reconciliation of the SMM reseller panel: *)
(* the forward-order edge function, the sync-order-status sweep, and the   *)
(* balance mutations of the dashboard and the admin pages.                 *)
(*                                                                         *)
(* JSON values are records [t, s, n]: t is the JavaScript type, s the      *)
(* characters of a string (a sequence of one-character strings), n the     *)
(* value of a number.  Database NULL is JNull.                             *)
(***************************************************************************)
EXTENDS Integers, Sequences, FiniteSets, TLC

VARIABLES
    orders,      \* table orders: id -> row, for the ids that exist
    orders0,     \* the table orders as it was initially
    fw,          \* the forward-order invocation in progress
    sw,          \* the sync-order-status invocations (sweeps)
    answers,     \* what each provider answers to action=status, per order
    balance,     \* profiles.balance of the user
    applied,     \* the sum of the deltas of the balance changes that were written
    profile,     \* the balance held by the user's browser (useAuth().profile)
    users,       \* the balance held by the admin's user list (AdminUsers.users)
    payments,    \* table payments: id -> status
    place,       \* PlaceOrder.handleSubmit in progress
    approve,     \* the AdminPayments page of each admin, handleApprove in progress
    adjust,      \* AdminUsers.adjustBalance in progress
    adm,         \* AdminOrders.updateStatus in progress
    svcT,        \* table services as the sync-rates job (svcT.job) and as the
                 \* admin's Sync Rates (svcT.admin) leave it, from one start
    catalogs,    \* what each provider answers to action=services
    rs,          \* sync-rates in progress
    av,          \* the AdminServices page, syncRatesFromProviders in progress
    imp,         \* the AdminAPIProviders page: the import session
    inserted,    \* the services rows the imports inserted
    klog         \* a provider's api_key, the log lines and the error messages
                 \* of the functions that call it

vars == <<orders, orders0, fw, sw, answers, balance, applied, profile, users, payments, place, approve, adjust, adm,
         svcT, catalogs, rs, av, imp, inserted, klog>>

fwdVars  == <<orders, orders0, fw>>
syncVars == <<sw, answers>>
admVars  == <<adm>>
rateVars == <<svcT, catalogs, rs, av>>
impVars  == <<imp, inserted>>
keyVars  == <<klog>>
restVars == <<impVars, keyVars>>
balVars  == <<balance, applied, profile, users, payments, place, approve, adjust>>

----------------------------------------------------------------------------
(* Bounds *)

MaxOrders == 2
MaxAdjusts == 1
MaxImports == 1
MaxKeyLen  == 2
MaxCalls   == 2

OrderIds == 1..MaxOrders

\* two invocations of sync-order-status, which may overlap
Sweeps == {1, 2}

----------------------------------------------------------------------------
(* JSON values and the JavaScript conversions the functions apply to them *)

Undef   == [t |-> "undef", s |-> <<>>, n |-> 0]
JNull   == [t |-> "null",  s |-> <<>>, n |-> 0]
NaN     == [t |-> "nan",   s |-> <<>>, n |-> 0]
Str(x)  == [t |-> "str",   s |-> x,    n |-> 0]
Num(k)  == [t |-> "num",   s |-> <<>>, n |-> k]

DigitChars == <<"0", "1", "2", "3", "4", "5", "6", "7", "8", "9">>

\* Number.prototype.toString() of a non-negative integer
RECURSIVE NumToStr(_)
NumToStr(k) ==
    IF k < 10 THEN <<DigitChars[k + 1]>>
    ELSE NumToStr(k \div 10) \o <<DigitChars[(k % 10) + 1]>>

\* JavaScript truthiness
Truthy(v) ==
    CASE v.t = "str" -> v.s # <<>>
      [] v.t = "num" -> v.n # 0
      [] OTHER -> FALSE

\* v?.toString()
OptToString(v) ==
    CASE v.t = "str" -> v
      [] v.t = "num" -> Str(NumToStr(v.n))
      [] OTHER -> Undef

----------------------------------------------------------------------------
(* Configuration read by the functions: providers and services *)

NoProvider == "none"

\* table api_providers; "p9" is referenced by a service and has no row
api_providers ==
    [p \in {"p1", "p2"} |-> [is_active |-> (p = "p1")]]

\* table services, the columns the functions select
services ==
    [sid \in {"s1", "s2", "s3", "s4", "s5", "s6"} |->
        CASE sid = "s1" -> [api_service_id |-> Str(<<"1", "2">>), api_provider_id |-> "p1"]
          [] sid = "s2" -> [api_service_id |-> Str(<<"1", "2">>), api_provider_id |-> "p2"]
          [] sid = "s3" -> [api_service_id |-> Str(<<"1", "2">>), api_provider_id |-> "p9"]
          [] sid = "s4" -> [api_service_id |-> Str(<<"1", "2">>), api_provider_id |-> NoProvider]
          [] sid = "s5" -> [api_service_id |-> JNull,             api_provider_id |-> "p1"]
          [] sid = "s6" -> [api_service_id |-> JNull,             api_provider_id |-> NoProvider]]

\* orders.service_id: a service of the table, or "s0", whose row is gone
ServiceRefs == DOMAIN services \cup {"s0"}

Users == {"u1", "u2"}

\* orders.user_id of the orders of the model
OwnerOf(o) == IF o % 2 = 1 THEN "u1" ELSE "u2"

NewOrder(o, sid) ==
    [user_id |-> OwnerOf(o), service_id |-> sid, quantity |-> 1000, amount |-> 50,
     status |-> "pending",
     external_order_id |-> JNull, start_count |-> JNull, remains |-> JNull]

\* the update adds to the counters instead of setting them
ApplyUpdate_delta(row, upd) ==
    [c \in DOMAIN row |->
        IF c \notin DOMAIN upd THEN row[c]
        ELSE IF c \in {"start_count", "remains"} /\ upd[c].t = "num"
          THEN Num((IF row[c].t = "num" THEN row[c].n ELSE 0) + upd[c].n)
        ELSE upd[c]]

\* supabase .update(upd).eq('id', o): the columns that upd names are set; the
\* JSON body carries NaN as null
ApplyUpdate(row, upd) ==
    [c \in DOMAIN row |->
        IF c \notin DOMAIN upd THEN row[c]
        ELSE IF c \in {"start_count", "remains"} /\ upd[c] = NaN THEN JNull
        ELSE upd[c]]

NoUpdate == [none |-> TRUE]

----------------------------------------------------------------------------
(* forward-order *)

NoHeader     == "no-header"
InvalidToken == "invalid-token"
Callers      == Users \cup {NoHeader, InvalidToken}
NoId         == 0

Msg(m) == Str(<<m>>)

NoHttp == [status |-> 0, success |-> Undef, forwarded |-> Undef,
           externalOrderId |-> Undef, error |-> Undef]

JTrue  == [t |-> "bool", s |-> <<>>, n |-> 1]
JFalse == [t |-> "bool", s |-> <<>>, n |-> 0]

ErrorResponse(code, success, err) ==
    [status |-> code, success |-> success, forwarded |-> Undef,
     externalOrderId |-> Undef, error |-> err]

\* the outcomes of the call to the provider's add action
NetworkError == [kind |-> "throw", error |-> Undef, order |-> Undef, id |-> Undef]
NotJson      == [kind |-> "text",  error |-> Undef, order |-> Undef, id |-> Undef]
AddJson(e, o, i) == [kind |-> "json", error |-> e, order |-> o, id |-> i]

BadLink == Str(<<"B", "a", "d">>)

AddOutcomes ==
    { NetworkError, NotJson,
      AddJson(Undef, Num(42), Undef),
      AddJson(Undef, Str(<<"A", "7">>), Undef),
      AddJson(Undef, Undef, Num(7)),
      AddJson(Undef, Num(42), Num(7)),
      AddJson(Undef, Num(0), Num(7)),
      AddJson(Undef, JNull, Num(7)),
      AddJson(Undef, Str(<<>>), Num(7)),
      AddJson(Undef, Undef, Undef),
      AddJson(Undef, Str(<<>>), Undef),
      AddJson(BadLink, Undef, Undef),
      AddJson(BadLink, Num(42), Undef),
      AddJson(Str(<<>>), Num(42), Undef),
      AddJson(JNull, Undef, Undef) }

FwIdle == [pc |-> "idle", caller |-> NoHeader, orderId |-> NoId, nreq |-> 0,
           apiResponse |-> NetworkError, upd |-> NoUpdate, dbOk |-> TRUE,
           http |-> NoHttp]

FwDone(caller, oid, resp) ==
    [FwIdle EXCEPT !.pc = "done", !.caller = caller, !.orderId = oid, !.http = resp]

\* the service joined to the order, or none
ServiceOf(row) ==
    IF row.service_id \in DOMAIN services THEN services[row.service_id]
    ELSE [api_service_id |-> Undef, api_provider_id |-> NoProvider]

\* the check with the provider id forgotten
HasApiIntegration_serviceIdOnly(row) ==
    Truthy(ServiceOf(row).api_service_id)

\* line 78: !service?.api_service_id || !service?.api_provider_id
HasApiIntegration(row) ==
    /\ Truthy(ServiceOf(row).api_service_id)
    /\ ServiceOf(row).api_provider_id # NoProvider

\* the provider row is taken whether active or not
ActiveProvider_anyRow(pid) ==
    pid \in DOMAIN api_providers

\* every caller is taken for the owner
Owns_anyone(caller, row) == TRUE

\* lines 67-73: order.user_id !== user.id
Owns(caller, row) == row.user_id = caller

\* lines 91-98: the provider row with that id and is_active = true
ActiveProvider(pid) ==
    pid \in DOMAIN api_providers /\ api_providers[pid].is_active

\* the two fields taken in the other order
externalOrderId_idFirst(apiResponse) ==
    IF Truthy(OptToString(apiResponse.id)) THEN OptToString(apiResponse.id)
    ELSE IF Truthy(OptToString(apiResponse.order)) THEN OptToString(apiResponse.order)
    ELSE JNull

\* line 170: apiResponse.order?.toString() || apiResponse.id?.toString() || null
externalOrderId(apiResponse) ==
    IF Truthy(OptToString(apiResponse.order)) THEN OptToString(apiResponse.order)
    ELSE IF Truthy(OptToString(apiResponse.id)) THEN OptToString(apiResponse.id)
    ELSE JNull

\* an order that has an external id already is not submitted again
FwdBegin_once(caller, oid) ==
    /\ fw.pc = "idle"
    /\ fw' =
         IF caller = NoHeader
           THEN FwDone(caller, oid, ErrorResponse(401, Undef, Msg("No authorization header")))
         ELSE IF caller = InvalidToken
           THEN FwDone(caller, oid, ErrorResponse(401, Undef, Msg("Unauthorized")))
         ELSE IF oid = NoId
           THEN FwDone(caller, oid, ErrorResponse(400, Undef, Msg("Order ID is required")))
         ELSE IF oid \notin DOMAIN orders
           THEN FwDone(caller, oid, ErrorResponse(404, Undef, Msg("Order not found")))
         ELSE IF ~Owns(caller, orders[oid])
           THEN FwDone(caller, oid, ErrorResponse(403, Undef, Msg("Unauthorized to access this order")))
         ELSE IF ~HasApiIntegration(orders[oid])
           THEN FwDone(caller, oid,
                       [status |-> 200, success |-> JTrue, forwarded |-> JFalse,
                        externalOrderId |-> Undef, error |-> Undef])
         ELSE IF orders[oid].external_order_id # JNull
           THEN FwDone(caller, oid,
                       [status |-> 200, success |-> JTrue, forwarded |-> JFalse,
                        externalOrderId |-> Undef, error |-> Undef])
         ELSE IF ~ActiveProvider(ServiceOf(orders[oid]).api_provider_id)
           THEN FwDone(caller, oid, ErrorResponse(400, JFalse, Msg("API provider not found or inactive")))
         ELSE [FwIdle EXCEPT !.pc = "sent", !.caller = caller, !.orderId = oid, !.nreq = 1]
    /\ UNCHANGED <<orders, orders0, syncVars, admVars, rateVars, restVars, balVars>>

\* lines 21-127: authentication, the order, the checks, and the add request
FwdBegin(caller, oid) ==
    /\ fw.pc = "idle"
    /\ fw' =
         IF caller = NoHeader
           THEN FwDone(caller, oid, ErrorResponse(401, Undef, Msg("No authorization header")))
         ELSE IF caller = InvalidToken
           THEN FwDone(caller, oid, ErrorResponse(401, Undef, Msg("Unauthorized")))
         ELSE IF oid = NoId
           THEN FwDone(caller, oid, ErrorResponse(400, Undef, Msg("Order ID is required")))
         ELSE IF oid \notin DOMAIN orders
           THEN FwDone(caller, oid, ErrorResponse(404, Undef, Msg("Order not found")))
         ELSE IF ~Owns(caller, orders[oid])
           THEN FwDone(caller, oid, ErrorResponse(403, Undef, Msg("Unauthorized to access this order")))
         ELSE IF ~HasApiIntegration(orders[oid])
           THEN FwDone(caller, oid,
                       [status |-> 200, success |-> JTrue, forwarded |-> JFalse,
                        externalOrderId |-> Undef, error |-> Undef])
         ELSE IF ~ActiveProvider(ServiceOf(orders[oid]).api_provider_id)
           THEN FwDone(caller, oid, ErrorResponse(400, JFalse, Msg("API provider not found or inactive")))
         ELSE [FwIdle EXCEPT !.pc = "sent", !.caller = caller, !.orderId = oid, !.nreq = 1]
    /\ UNCHANGED <<orders, orders0, syncVars, admVars, rateVars, restVars, balVars>>

\* the provider's error raised instead of answered
FwdApiError_raises(apiResponse, dbOk) ==
    /\ orders' = orders
    /\ fw' = [fw EXCEPT !.pc = "done", !.apiResponse = apiResponse, !.dbOk = dbOk,
                        !.http = ErrorResponse(500, Undef, apiResponse.error)]

\* lines 147-167: the provider reported an error
FwdApiError(apiResponse, dbOk) ==
    LET upd == [status |-> "cancelled"] IN
    /\ orders' = IF dbOk THEN [orders EXCEPT ![fw.orderId] = ApplyUpdate(@, upd)] ELSE orders
    /\ fw' = [fw EXCEPT !.pc = "done", !.apiResponse = apiResponse, !.upd = upd,
                        !.dbOk = dbOk,
                        !.http = ErrorResponse(400, JFalse, apiResponse.error)]

\* the update is issued whether the provider gave an id or not
FwdSuccess_unguarded(apiResponse, dbOk) ==
    LET ext == externalOrderId(apiResponse)
        upd == [external_order_id |-> ext, status |-> "processing"]
    IN
    /\ orders' = IF dbOk THEN [orders EXCEPT ![fw.orderId] = ApplyUpdate(@, upd)] ELSE orders
    /\ fw' = [fw EXCEPT !.pc = "done", !.apiResponse = apiResponse, !.upd = upd,
                        !.dbOk = dbOk,
                        !.http = [status |-> 200, success |-> JTrue, forwarded |-> JTrue,
                                  externalOrderId |-> ext, error |-> Undef]]

\* lines 169-198: the external id, the update, the success answer
FwdSuccess(apiResponse, dbOk) ==
    LET ext == externalOrderId(apiResponse)
        upd == [external_order_id |-> ext, status |-> "processing"]
    IN
    /\ orders' = IF ext # JNull /\ dbOk
                   THEN [orders EXCEPT ![fw.orderId] = ApplyUpdate(@, upd)]
                   ELSE orders
    /\ fw' = [fw EXCEPT !.pc = "done", !.apiResponse = apiResponse,
                        !.upd = IF ext # JNull THEN upd ELSE NoUpdate,
                        !.dbOk = (ext = JNull \/ dbOk),
                        !.http = [status |-> 200, success |-> JTrue, forwarded |-> JTrue,
                                  externalOrderId |-> ext, error |-> Undef]]

\* lines 122-127, 200-207: fetch throws and the outer catch answers
FwdThrown(apiResponse) ==
    /\ fw' = [fw EXCEPT !.pc = "done", !.apiResponse = apiResponse,
                        !.http = ErrorResponse(500, Undef, Msg("fetch failed"))]
    /\ UNCHANGED orders

\* the unreadable answer is taken for a refusal and the order cancelled
FwdInvalid_cancels(apiResponse) ==
    /\ fw' = [fw EXCEPT !.pc = "done", !.apiResponse = apiResponse,
                        !.upd = [status |-> "cancelled"],
                        !.http = ErrorResponse(500, JFalse, Msg("Invalid response from API provider"))]
    /\ orders' = [orders EXCEPT ![fw.orderId] = ApplyUpdate(@, [status |-> "cancelled"])]

\* lines 132-145: JSON.parse throws
FwdInvalid(apiResponse) ==
    /\ fw' = [fw EXCEPT !.pc = "done", !.apiResponse = apiResponse,
                        !.http = ErrorResponse(500, JFalse, Msg("Invalid response from API provider"))]
    /\ UNCHANGED orders

\* lines 122-207: the provider's answer to the add request
FwdReceive(apiResponse, dbOk) ==
    /\ fw.pc = "sent"
    /\ \/ /\ apiResponse.kind = "throw"
          /\ dbOk
          /\ FwdThrown(apiResponse)
       \/ /\ apiResponse.kind = "text"
          /\ dbOk
          /\ FwdInvalid(apiResponse)
       \/ /\ apiResponse.kind = "json"
          /\ Truthy(apiResponse.error)
          /\ FwdApiError(apiResponse, dbOk)
       \/ /\ apiResponse.kind = "json"
          /\ ~Truthy(apiResponse.error)
          /\ FwdSuccess(apiResponse, dbOk)
    /\ UNCHANGED <<orders0, syncVars, admVars, rateVars, restVars, balVars>>

\* the answer is delivered and the function instance ends
FwdReturn ==
    /\ fw.pc = "done"
    /\ fw' = FwIdle
    /\ UNCHANGED <<orders, orders0, syncVars, admVars, rateVars, restVars, balVars>>

----------------------------------------------------------------------------
(* sync-order-status *)

UpperChars == <<"A", "B", "C", "D", "E", "F", "G", "H", "I", "J", "K", "L", "M", "N", "O", "P", "Q", "R", "S", "T", "U", "V", "W", "X", "Y", "Z">>
LowerChars == <<"a", "b", "c", "d", "e", "f", "g", "h", "i", "j", "k", "l", "m", "n", "o", "p", "q", "r", "s", "t", "u", "v", "w", "x", "y", "z">>

LowerChar(c) ==
    IF \E k \in 1..26 : UpperChars[k] = c
      THEN LowerChars[CHOOSE k \in 1..26 : UpperChars[k] = c]
      ELSE c

\* String.prototype.toLowerCase()
ToLowerCase(str) == [k \in 1..Len(str) |-> LowerChar(str[k])]

S_completed  == <<"c", "o", "m", "p", "l", "e", "t", "e", "d">>
S_partial    == <<"p", "a", "r", "t", "i", "a", "l">>
S_cancelled  == <<"c", "a", "n", "c", "e", "l", "l", "e", "d">>
S_canceled   == <<"c", "a", "n", "c", "e", "l", "e", "d">>
S_inprogress == <<"i", "n", "p", "r", "o", "g", "r", "e", "s", "s">>
S_in_progress == <<"i", "n", " ", "p", "r", "o", "g", "r", "e", "s", "s">>
S_processing == <<"p", "r", "o", "c", "e", "s", "s", "i", "n", "g">>
S_pending    == <<"p", "e", "n", "d", "i", "n", "g">>

\* the mapping with the American spelling forgotten
MapStatus_noAlias(current, status) ==
    IF ~Truthy(status) THEN current
    ELSE LET externalStatus == ToLowerCase(status.s) IN
         IF externalStatus = S_completed THEN "completed"
         ELSE IF externalStatus = S_partial THEN "partial"
         ELSE IF externalStatus = S_cancelled THEN "cancelled"
         ELSE IF externalStatus = S_in_progress \/ externalStatus = S_inprogress
                 \/ externalStatus = S_processing THEN "processing"
         ELSE IF externalStatus = S_pending THEN "pending"
         ELSE current

\* a provider's pending is not taken over
MapStatus_keepsProgress(current, status) ==
    IF ~Truthy(status) THEN current
    ELSE LET externalStatus == ToLowerCase(status.s) IN
         IF externalStatus = S_completed THEN "completed"
         ELSE IF externalStatus = S_partial THEN "partial"
         ELSE IF externalStatus = S_cancelled \/ externalStatus = S_canceled THEN "cancelled"
         ELSE IF externalStatus = S_in_progress \/ externalStatus = S_inprogress
                 \/ externalStatus = S_processing THEN "processing"
         ELSE current

\* lines 100-115: newStatus from order.status and result.status
MapStatus(current, status) ==
    IF ~Truthy(status) THEN current
    ELSE LET externalStatus == ToLowerCase(status.s) IN
         IF externalStatus = S_completed THEN "completed"
         ELSE IF externalStatus = S_partial THEN "partial"
         ELSE IF externalStatus = S_cancelled \/ externalStatus = S_canceled THEN "cancelled"
         ELSE IF externalStatus = S_in_progress \/ externalStatus = S_inprogress
                 \/ externalStatus = S_processing THEN "processing"
         ELSE IF externalStatus = S_pending THEN "pending"
         ELSE current

IsDigit(c) == \E k \in 1..10 : DigitChars[k] = c
DigitVal(c) == (CHOOSE k \in 1..10 : DigitChars[k] = c) - 1

RECURSIVE SkipSpaces(_)
SkipSpaces(str) ==
    IF str # <<>> /\ Head(str) = " " THEN SkipSpaces(Tail(str)) ELSE str

\* the leading digits of str: <<how many, their value>>
RECURSIVE LeadingDigits(_, _, _)
LeadingDigits(str, count, acc) ==
    IF str # <<>> /\ IsDigit(Head(str))
      THEN LeadingDigits(Tail(str), count + 1, acc * 10 + DigitVal(Head(str)))
      ELSE <<count, acc>>

\* parseInt(v, 10)
ParseInt(v) ==
    CASE v.t = "num" -> v
      [] v.t = "str" ->
           LET trimmed  == SkipSpaces(v.s)
               negative == trimmed # <<>> /\ Head(trimmed) = "-"
               signed   == trimmed # <<>> /\ Head(trimmed) \in {"-", "+"}
               digits   == LeadingDigits(IF signed THEN Tail(trimmed) ELSE trimmed, 0, 0)
           IN IF digits[1] = 0 THEN NaN
              ELSE Num(IF negative THEN 0 - digits[2] ELSE digits[2])
      [] OTHER -> NaN

\* the counts taken when truthy
Provided_truthy(v) == Truthy(v)

\* lines 124, 128: x !== undefined && x !== null
Provided(v) == v # Undef /\ v # JNull

\* lines 125, 129: parseInt(x, 10)
CountOf(v) == ParseInt(v)

\* the status is written whether it changed or not
BuildUpdateData_always(order, result) ==
    LET newStatus == MapStatus(order.status, result.status)
        cols == {"status"}
                \cup (IF Provided(result.start_count) THEN {"start_count"} ELSE {})
                \cup (IF Provided(result.remains) THEN {"remains"} ELSE {})
    IN [c \in cols |->
          CASE c = "status" -> newStatus
            [] c = "start_count" -> CountOf(result.start_count)
            [] c = "remains" -> CountOf(result.remains)]

\* lines 117-130: updateData
BuildUpdateData(order, result) ==
    LET newStatus == MapStatus(order.status, result.status)
        cols == (IF newStatus # order.status THEN {"status"} ELSE {})
                \cup (IF Provided(result.start_count) THEN {"start_count"} ELSE {})
                \cup (IF Provided(result.remains) THEN {"remains"} ELSE {})
    IN [c \in cols |->
          CASE c = "status" -> newStatus
            [] c = "start_count" -> CountOf(result.start_count)
            [] c = "remains" -> CountOf(result.remains)]

\* the outcomes of the call to the provider's status action
StatusJson(e, st, sc, rem) ==
    [kind |-> "json", error |-> e, status |-> st, start_count |-> sc, remains |-> rem]
StatusFailure(k) ==
    [kind |-> k, error |-> Undef, status |-> Undef, start_count |-> Undef, remains |-> Undef]

BusinessError == StatusJson(BadLink, Undef, Undef, Undef)
Finished      == StatusJson(Undef, Str(<<"C", "o", "m", "p", "l", "e", "t", "e", "d">>), Undef, Undef)

\* the call fails: a status that is not 2xx (lines 84-88), or fetch or
\* response.json() throws (lines 149-152); the two paths do the same
CallFails == StatusFailure("fails")

\* the provider never answers
Hang == StatusFailure("hang")

\* the orders in pending or processing are selected, forwarded or not
Selected_notForwarded(row) ==
    row.status \in {"pending", "processing"}

\* every order that has an external id is selected
Selected_anyStatus(row) ==
    row.external_order_id # JNull

\* lines 40-41: the rows the sweep selects
Selected(row) ==
    row.external_order_id # JNull /\ row.status \in {"pending", "processing"}

\* lines 64-66: the provider joined to the order's service, active
ProviderUsable(row) ==
    LET pid == ServiceOf(row).api_provider_id IN
    pid \in DOMAIN api_providers /\ api_providers[pid].is_active

NoSummary == [status |-> 0, total |-> 0, synced |-> 0, errors |-> 0]

\* lines 50-52, 170-172: the answer has no such field
NoField == -1

\* log is the record of what the sweep did with each order, in iteration order
SwIdle == [pc |-> "idle", sel |-> <<>>, i |-> 0, syncedCount |-> 0, errorCount |-> 0,
           newStatus |-> "", updateData |-> <<>>, log |-> <<>>, http |-> NoSummary]

\* the total counts the orders that were synced or failed
NextOrder_totalCounted(w) ==
    IF w.i < Len(w.sel)
      THEN [w EXCEPT !.pc = "fetch", !.i = w.i + 1, !.newStatus = "", !.updateData = <<>>]
      ELSE [w EXCEPT !.pc = "done", !.newStatus = "", !.updateData = <<>>,
                     !.http = [status |-> 200, total |-> w.syncedCount + w.errorCount,
                               synced |-> w.syncedCount, errors |-> w.errorCount]]

\* the end of an iteration: the next order, or the summary of lines 157-165
NextOrder(w) ==
    IF w.i < Len(w.sel)
      THEN [w EXCEPT !.pc = "fetch", !.i = w.i + 1, !.newStatus = "", !.updateData = <<>>]
      ELSE [w EXCEPT !.pc = "done", !.newStatus = "", !.updateData = <<>>,
                     !.http = [status |-> 200, total |-> Len(w.sel),
                               synced |-> w.syncedCount, errors |-> w.errorCount]]

Logged(w, outcome, upd) ==
    [w EXCEPT !.log = Append(@, [id |-> w.sel[w.i].id, outcome |-> outcome,
                                 newStatus |-> w.newStatus, upd |-> upd])]

\* a failed call ends the sweep
AfterCallFailure_aborts(w) ==
    [Logged(w, "failed", <<>>) EXCEPT !.pc = "done", !.errorCount = @ + 1,
        !.http = [status |-> 500, total |-> 0, synced |-> 0, errors |-> 0]]

\* lines 84-88, 149-152: errorCount++ and on to the next order
AfterCallFailure(w) ==
    NextOrder([Logged(w, "failed", <<>>) EXCEPT !.errorCount = @ + 1])

\* the ids of a set in ascending order
RECURSIVE Ascending(_)
Ascending(ids) ==
    IF ids = {} THEN <<>>
    ELSE LET least == CHOOSE a \in ids : \A b \in ids : a <= b
         IN <<least>> \o Ascending(ids \ {least})

\* the ids of the rows of a table, in the order of their names
RowOrder == <<"p1", "p2", "p9", "s1", "s2", "s3", "s4", "s5", "s6">>

ById(ids) == SelectSeq(RowOrder, LAMBDA x : x \in ids)

Reverse(q) == [k \in 1..Len(q) |-> q[Len(q) + 1 - k]]

\* the query names no order: the rows come by id, upwards or downwards
Orderings(ids) == {Ascending(ids), Reverse(Ascending(ids))}

\* lines 24-59: the selection, in the order the database returns the rows
SyncSelect(s, dbOk) ==
    /\ sw[s].pc = "idle"
    /\ IF ~dbOk
         THEN sw' = [sw EXCEPT ![s] = [@ EXCEPT !.pc = "done",
                         !.http = [status |-> 500, total |-> NoField,
                                   synced |-> NoField, errors |-> NoField]]]
         ELSE \E q \in Orderings({o \in DOMAIN orders : Selected(orders[o])}) :
                LET sel == [k \in DOMAIN q |->
                              [id |-> q[k], status |-> orders[q[k]].status,
                               external_order_id |-> orders[q[k]].external_order_id,
                               service_id |-> orders[q[k]].service_id]]
                IN sw' = [sw EXCEPT ![s] =
                            IF Len(sel) = 0
                              THEN [@ EXCEPT !.pc = "done",
                                             !.http = [status |-> 200, total |-> NoField,
                                                       synced |-> 0, errors |-> NoField]]
                              ELSE [@ EXCEPT !.pc = "fetch", !.sel = sel, !.i = 1]]
    /\ UNCHANGED <<orders, orders0, fw, answers, balVars, admVars, rateVars, restVars>>

\* lines 62-147: one order, from the provider check to updateData
SyncFetch(s) ==
    LET w      == sw[s]
        order  == w.sel[w.i]
        result == answers[order.id]
    IN
    /\ w.pc = "fetch"
    /\ \/ /\ ~ProviderUsable(order)
          /\ sw' = [sw EXCEPT ![s] = NextOrder(Logged(w, "skipped", <<>>))]
       \/ /\ ProviderUsable(order)
          /\ result = CallFails
          /\ sw' = [sw EXCEPT ![s] = AfterCallFailure(w)]
       \/ /\ ProviderUsable(order)
          /\ result.kind = "json"
          /\ Truthy(result.error)
          /\ sw' = [sw EXCEPT ![s] =
                      NextOrder([Logged(w, "error", <<>>) EXCEPT !.errorCount = @ + 1])]
       \/ /\ ProviderUsable(order)
          /\ result.kind = "json"
          /\ ~Truthy(result.error)
          /\ LET updateData == BuildUpdateData(order, result)
                 mapped == [w EXCEPT !.newStatus = MapStatus(order.status, result.status)]
             IN sw' = [sw EXCEPT ![s] =
                         IF DOMAIN updateData = {}
                           THEN NextOrder(Logged(mapped, "nochange", <<>>))
                           ELSE [mapped EXCEPT !.pc = "write", !.updateData = updateData]]
    /\ UNCHANGED <<orders, orders0, fw, answers, balVars, admVars, rateVars, restVars>>

\* lines 132-144: the update of the order row
SyncWrite(s, dbOk) ==
    LET w == sw[s] IN
    /\ w.pc = "write"
    /\ IF dbOk
         THEN /\ orders' = [orders EXCEPT ![w.sel[w.i].id] = ApplyUpdate(@, w.updateData)]
              /\ sw' = [sw EXCEPT ![s] =
                          NextOrder([Logged(w, "updated", w.updateData)
                                       EXCEPT !.syncedCount = @ + 1])]
         ELSE /\ orders' = orders
              /\ sw' = [sw EXCEPT ![s] =
                          NextOrder([Logged(w, "dberror", w.updateData)
                                       EXCEPT !.errorCount = @ + 1])]
    /\ UNCHANGED <<orders0, fw, answers, balVars, admVars, rateVars, restVars>>

----------------------------------------------------------------------------
(* The balance: order placement, payment approval, admin adjustment.  Money *)
(* is in whole rupees; the quantities of the model give whole amounts.      *)

\* the service the user orders, as the dashboard loaded it
catalog ==
    [sid \in {"s1"} |-> [price_per_1000 |-> 50, min_quantity |-> 100, max_quantity |-> 10000]]

\* lines 646-649: totalAmount
totalAmount(sid, quantity) ==
    IF sid \in DOMAIN catalog THEN (quantity * catalog[sid].price_per_1000) \div 1000 ELSE 0

PlaceIdle == [pc |-> "idle", quantity |-> 0, totalAmount |-> 0, seen |-> 0,
              inserted |-> FALSE, debited |-> FALSE, result |-> ""]

PlaceEnded(result) == [PlaceIdle EXCEPT !.pc = "done", !.result = result]

\* the minimum of the service is not tested
PlaceSubmit_noMinimum(sid, linkOk, quantity, dbOk) ==
    LET total == totalAmount(sid, quantity)
        id    == Cardinality(DOMAIN orders) + 1
        row   == [NewOrder(id, sid) EXCEPT !.user_id = "u1", !.quantity = quantity,
                                           !.amount = total]
    IN
    /\ place.pc \in {"idle", "done"}
    /\ Cardinality(DOMAIN orders) < MaxOrders
    /\ IF sid = "" \/ ~linkOk \/ quantity < 1
         THEN place' = PlaceEnded("invalid") /\ orders' = orders
       ELSE IF quantity > catalog[sid].max_quantity
         THEN place' = PlaceEnded("quantity") /\ orders' = orders
       ELSE IF profile < total
         THEN place' = PlaceEnded("insufficient") /\ orders' = orders
       ELSE IF ~dbOk
         THEN place' = PlaceEnded("failed") /\ orders' = orders
       ELSE /\ place' = [PlaceIdle EXCEPT !.pc = "debit", !.quantity = quantity,
                                          !.totalAmount = total, !.seen = profile,
                                          !.inserted = TRUE]
            /\ orders' = [o \in DOMAIN orders \cup {id} |-> IF o = id THEN row ELSE orders[o]]
    /\ UNCHANGED <<orders0, fw, syncVars, admVars, rateVars, restVars, balance, applied, profile, users, payments,
                   approve, adjust>>

\* lines 671-732: validation, the balance check, the insert of the order
PlaceSubmit(sid, linkOk, quantity, dbOk) ==
    LET total == totalAmount(sid, quantity)
        id    == Cardinality(DOMAIN orders) + 1
        row   == [NewOrder(id, sid) EXCEPT !.user_id = "u1", !.quantity = quantity,
                                           !.amount = total]
    IN
    /\ place.pc \in {"idle", "done"}
    /\ Cardinality(DOMAIN orders) < MaxOrders
    /\ IF sid = "" \/ ~linkOk \/ quantity < 1
         THEN place' = PlaceEnded("invalid") /\ orders' = orders
       ELSE IF quantity < catalog[sid].min_quantity \/ quantity > catalog[sid].max_quantity
         THEN place' = PlaceEnded("quantity") /\ orders' = orders
       ELSE IF profile < total
         THEN place' = PlaceEnded("insufficient") /\ orders' = orders
       ELSE IF ~dbOk
         THEN place' = PlaceEnded("failed") /\ orders' = orders
       ELSE /\ place' = [PlaceIdle EXCEPT !.pc = "debit", !.quantity = quantity,
                                          !.totalAmount = total, !.seen = profile,
                                          !.inserted = TRUE]
            /\ orders' = [o \in DOMAIN orders \cup {id} |-> IF o = id THEN row ELSE orders[o]]
    /\ UNCHANGED <<orders0, fw, syncVars, admVars, rateVars, restVars, balance, applied, profile, users, payments,
                   approve, adjust>>

\* lines 734-740: newBalance from the profile of the page, and its update
PlaceDebit(dbOk) ==
    LET newBalance == place.seen - place.totalAmount IN
    /\ place.pc = "debit"
    /\ IF dbOk
         THEN /\ balance' = newBalance
              /\ applied' = applied - place.totalAmount
              /\ place' = [place EXCEPT !.pc = "refresh", !.debited = TRUE]
         ELSE /\ UNCHANGED <<balance, applied>>
              /\ place' = [PlaceEnded("failed") EXCEPT !.inserted = TRUE]
    /\ UNCHANGED <<fwdVars, syncVars, admVars, rateVars, restVars, profile, users, payments, approve, adjust>>

\* line 742: await refreshProfile()
PlaceRefresh ==
    /\ place.pc = "refresh"
    /\ profile' = balance
    /\ place' = [PlaceEnded("placed") EXCEPT !.inserted = TRUE, !.debited = TRUE]
    /\ UNCHANGED <<fwdVars, syncVars, admVars, rateVars, restVars, balance, applied, users, payments, approve, adjust>>

\* useAuth().refreshProfile: the page reads the profile again
refreshProfile ==
    /\ place.pc \in {"idle", "done"}
    /\ profile' = balance
    /\ UNCHANGED <<fwdVars, syncVars, admVars, rateVars, restVars, balance, applied, users, payments, place, approve, adjust>>

Admins     == {"a1", "a2"}
PaymentIds == {1}

\* payments.amount
PaymentAmount(p) == IF p = 1 THEN 100 ELSE 0

ApproveIdle(list) == [pc |-> "idle", list |-> list, payment |-> 0, newBalance |-> 0]

\* lines 265-286: the page loads the payments
fetchPayments(a) ==
    /\ approve[a].pc = "idle"
    /\ approve' = [approve EXCEPT ![a].list = payments]
    /\ UNCHANGED <<fwdVars, syncVars, admVars, rateVars, restVars, balance, applied, profile, users, payments, place, adjust>>

\* lines 288-301, with the buttons of lines 451-475: the payment is marked approved
ApproveBegin(a, p, dbOk) ==
    /\ approve[a].pc = "idle"
    /\ approve[a].list[p] = "pending"
    /\ IF dbOk
         THEN /\ payments' = [payments EXCEPT ![p] = "approved"]
              /\ approve' = [approve EXCEPT ![a].pc = "read", ![a].payment = p]
         ELSE UNCHANGED <<payments, approve>>
    /\ UNCHANGED <<fwdVars, syncVars, admVars, rateVars, restVars, balance, applied, profile, users, place, adjust>>

\* lines 303-311: the current balance is read, newBalance computed
ApproveRead(a) ==
    /\ approve[a].pc = "read"
    /\ approve' = [approve EXCEPT ![a].pc = "write",
                                  ![a].newBalance = balance + PaymentAmount(approve[a].payment)]
    /\ UNCHANGED <<fwdVars, syncVars, admVars, rateVars, restVars, balance, applied, profile, users, payments, place, adjust>>

\* lines 312-339: newBalance is written
ApproveWrite(a, dbOk) ==
    LET p == approve[a].payment IN
    /\ approve[a].pc = "write"
    /\ IF dbOk
         THEN /\ balance' = approve[a].newBalance
              /\ applied' = applied + PaymentAmount(p)
              /\ approve' = [approve EXCEPT ![a] =
                               ApproveIdle([approve[a].list EXCEPT ![p] = "approved"])]
         ELSE /\ UNCHANGED <<balance, applied>>
              /\ approve' = [approve EXCEPT ![a] = ApproveIdle(approve[a].list)]
    /\ UNCHANGED <<fwdVars, syncVars, admVars, rateVars, restVars, profile, users, payments, place, adjust>>

\* lines 341-371
handleReject(a, p, dbOk) ==
    /\ approve[a].pc = "idle"
    /\ approve[a].list[p] = "pending"
    /\ IF dbOk
         THEN /\ payments' = [payments EXCEPT ![p] = "rejected"]
              /\ approve' = [approve EXCEPT ![a].list[p] = "rejected"]
         ELSE UNCHANGED <<payments, approve>>
    /\ UNCHANGED <<fwdVars, syncVars, admVars, rateVars, restVars, balance, applied, profile, users, place, adjust>>

AdjustIdle(count) == [pc |-> "idle", adjustment |-> 0, newBalance |-> 0, count |-> count]

\* lines 41-49: the page loads the users
fetchUsers ==
    /\ adjust.pc = "idle"
    /\ users' = balance
    /\ UNCHANGED <<fwdVars, syncVars, admVars, rateVars, restVars, balance, applied, profile, payments, place, approve, adjust>>

\* lines 70-85: newBalance from the user of the list
AdjustBegin(adjustment) ==
    /\ adjust.pc = "idle"
    /\ adjust.count < MaxAdjusts
    /\ users + adjustment >= 0
    /\ adjust' = [adjust EXCEPT !.pc = "write", !.adjustment = adjustment,
                                !.newBalance = users + adjustment, !.count = @ + 1]
    /\ UNCHANGED <<fwdVars, syncVars, admVars, rateVars, restVars, balance, applied, profile, users, payments, place, approve>>

\* lines 87-107
AdjustWrite(dbOk) ==
    /\ adjust.pc = "write"
    /\ IF dbOk
         THEN /\ balance' = adjust.newBalance
              /\ applied' = applied + adjust.adjustment
              /\ users' = adjust.newBalance
         ELSE UNCHANGED <<balance, applied, users>>
    /\ adjust' = AdjustIdle(adjust.count)
    /\ UNCHANGED <<fwdVars, syncVars, admVars, rateVars, restVars, profile, payments, place, approve>>

----------------------------------------------------------------------------
(* Rates: numbers of the rate domain are held in hundredths (0.50 is 50) *)

\* parseFloat of the text after its sign: the digits, a point, two decimals
ParseFloatDigits(str) ==
    LET int == LeadingDigits(str, 0, 0)
        rest == SubSeq(str, int[1] + 1, Len(str))
        frac == IF rest # <<>> /\ Head(rest) = "."
                  THEN LeadingDigits(Tail(rest), 0, 0) ELSE <<0, 0>>
        hundredths == IF frac[1] = 0 THEN 0
                      ELSE IF frac[1] = 1 THEN frac[2] * 10
                      ELSE LeadingDigits(SubSeq(Tail(rest), 1, 2), 0, 0)[2]
    IN IF int[1] = 0 /\ frac[1] = 0 THEN NaN ELSE Num(int[2] * 100 + hundredths)

\* parseFloat(String(x)): a number is itself, a text is read from its start
ParseFloat(v) ==
    CASE v.t = "num" -> v
      [] v.t = "str" ->
           LET trimmed  == SkipSpaces(v.s)
               negative == trimmed # <<>> /\ Head(trimmed) = "-"
               signed   == trimmed # <<>> /\ Head(trimmed) \in {"-", "+"}
               f        == ParseFloatDigits(IF signed THEN Tail(trimmed) ELSE trimmed)
           IN IF f = NaN THEN NaN ELSE Num(IF negative THEN 0 - f.n ELSE f.n)
      [] OTHER -> NaN

\* the rate is taken as it stands, unparsed
RateOf_raw(v) == v

\* sync-rates line 101, fetch-provider-services line 144: parseFloat(rate) || 0
RateOf(v) == IF Truthy(ParseFloat(v)) THEN ParseFloat(v) ELSE Num(0)

\* String(ps.service)
ServiceKey(v) ==
    CASE v.t = "num" -> NumToStr(v.n)
      [] v.t = "str" -> v.s
      [] OTHER -> <<"?">>

\* rateMap.get(key) after the forEach of the items: the last entry wins
RateLookup(items, key) ==
    LET idx == {i \in DOMAIN items : ServiceKey(items[i].service) = key} IN
    IF idx = {} THEN Undef
    ELSE RateOf(items[CHOOSE i \in idx : \A j \in idx : j <= i].rate)

\* the answers of a provider to action=services
CatalogArray(items) == [kind |-> "array", items |-> items, error |-> Undef]
CatalogHttpError    == [kind |-> "http", items |-> <<>>, error |-> Undef]
CatalogError        == [kind |-> "object", items |-> <<>>, error |-> BadLink]
CatalogItem(service, rate) == [service |-> service, rate |-> rate]

\* table services: the linkage of the service, its price, its cached rate
ServiceRow(sid, rate) ==
    [api_service_id |-> services[sid].api_service_id,
     api_provider_id |-> services[sid].api_provider_id,
     price_per_1000 |-> 120, min_quantity |-> 100, max_quantity |-> 10000,
     is_active |-> TRUE, original_rate |-> rate]

\* the update touches the sell price as well
RateUpdate_price(newRate) == [original_rate |-> newRate, price_per_1000 |-> newRate.n]

\* sync-rates line 113, AdminServices line 137: .update({ original_rate: newRate })
RateUpdate(newRate) == [original_rate |-> newRate]

\* the update of one row of table services
UpdateService(table, sid, upd) ==
    [table EXCEPT ![sid] = [c \in DOMAIN @ |-> IF c \in DOMAIN upd THEN upd[c] ELSE @[c]]]

\* the write is issued whenever the provider lists the service
NeedsWrite_always(newRate, service) == newRate # Undef

\* sync-rates line 110, AdminServices line 134
NeedsWrite(newRate, service) == newRate # Undef /\ newRate # service.original_rate

----------------------------------------------------------------------------
(* sync-rates, the scheduled job *)

NoRateSummary == [status |-> 0, updated |-> 0]

\* providers, services: what the job selected; p, k: the provider and the
\* service it is at; writes: the updates it issued; run: which run this is
RsIdle == [pc |-> "idle", providers |-> <<>>, services |-> <<>>, p |-> 0, todo |-> <<>>,
           k |-> 0, totalUpdated |-> 0, writes |-> 0, failed |-> FALSE, pairs |-> {},
           run |-> 0, prevFailed |-> FALSE, http |-> NoRateSummary]

\* the services of a list with both link columns set, by id
LinkedNotNull(table) ==
    ById({sid \in DOMAIN table :
                   table[sid].api_provider_id # NoProvider /\ table[sid].api_service_id # JNull})

\* the end of a provider's services: the next provider, or the summary
RsNextProvider(w) ==
    IF w.p < Len(w.providers)
      THEN [w EXCEPT !.pc = "fetch", !.p = w.p + 1, !.todo = <<>>, !.k = 0]
      ELSE [w EXCEPT !.pc = "done", !.todo = <<>>, !.k = 0,
                     !.http = [status |-> 200, updated |-> w.totalUpdated]]

RsNextService(w) ==
    IF w.k < Len(w.todo) THEN [w EXCEPT !.k = w.k + 1] ELSE RsNextProvider(w)

\* lines 24-69: the active providers and the linked services
RateSelect(dbOk) ==
    LET providers == ById({pid \in DOMAIN api_providers : api_providers[pid].is_active})
        linked    == LinkedNotNull(svcT.job)
        snapshot  == [i \in DOMAIN linked |->
                        [id |-> linked[i],
                         api_provider_id |-> svcT.job[linked[i]].api_provider_id,
                         api_service_id |-> svcT.job[linked[i]].api_service_id,
                         original_rate |-> svcT.job[linked[i]].original_rate]]
        start     == [RsIdle EXCEPT !.run = rs.run + 1, !.prevFailed = rs.failed]
    IN
    /\ rs.pc = "idle" \/ (rs.pc = "done" /\ rs.run < 2)
    /\ rs' = IF ~dbOk
               THEN [start EXCEPT !.pc = "done", !.failed = TRUE,
                                  !.http = [status |-> 500, updated |-> 0]]
             ELSE IF Len(providers) = 0 \/ Len(snapshot) = 0
               THEN [start EXCEPT !.pc = "done", !.http = [status |-> 200, updated |-> 0]]
             ELSE [start EXCEPT !.pc = "fetch", !.providers = providers,
                                !.services = snapshot, !.p = 1,
                                !.pairs = {<<snapshot[i].api_provider_id, snapshot[i].id>> :
                                             i \in {j \in DOMAIN snapshot :
                                                      \E q \in DOMAIN providers :
                                                         providers[q] = snapshot[j].api_provider_id}}]
    /\ UNCHANGED <<fwdVars, syncVars, balVars, admVars, restVars, svcT, catalogs, av>>

\* lines 72-105: the provider's catalog and the services linked to it
RateFetch ==
    LET provider == rs.providers[rs.p]
        answer   == catalogs[provider]
        todo     == SelectSeq(rs.services, LAMBDA s : s.api_provider_id = provider)
    IN
    /\ rs.pc = "fetch"
    /\ rs' = IF answer.kind # "array" THEN RsNextProvider(rs)
             ELSE IF Len(todo) = 0 THEN RsNextProvider(rs)
             ELSE [rs EXCEPT !.pc = "apply", !.todo = todo, !.k = 1]
    /\ UNCHANGED <<fwdVars, syncVars, balVars, admVars, restVars, svcT, catalogs, av>>

\* lines 107-123: one service of the provider
RateApply(dbOk) ==
    LET service == rs.todo[rs.k]
        newRate == RateLookup(catalogs[rs.providers[rs.p]].items, service.api_service_id.s)
    IN
    /\ rs.pc = "apply"
    /\ IF NeedsWrite(newRate, service)
         THEN IF dbOk
                THEN /\ svcT' = [svcT EXCEPT !.job = UpdateService(@, service.id, RateUpdate(newRate))]
                     /\ rs' = RsNextService([rs EXCEPT !.writes = @ + 1, !.totalUpdated = @ + 1])
                ELSE /\ svcT' = svcT
                     /\ rs' = RsNextService([rs EXCEPT !.writes = @ + 1, !.failed = TRUE])
         ELSE /\ dbOk
              /\ svcT' = svcT
              /\ rs' = RsNextService(rs)
    /\ UNCHANGED <<fwdVars, syncVars, balVars, admVars, restVars, catalogs, av>>

----------------------------------------------------------------------------
(* AdminServices: Sync Rates, through fetch-provider-services *)

\* fetch-provider-services lines 86-158, called by an admin: the provider
\* row whatever its is_active, its catalog, the standardized services
FetchProviderServices(providerId) ==
    IF providerId \notin DOMAIN api_providers
      THEN [error |-> Msg("Provider not found"), services |-> <<>>]
    ELSE LET answer == catalogs[providerId] IN
         IF answer.kind = "http"
           THEN [error |-> Msg("API request failed"), services |-> <<>>]
         ELSE IF Truthy(answer.error)
           THEN [error |-> answer.error, services |-> <<>>]
         ELSE [error |-> Undef,
               services |-> [i \in DOMAIN answer.items |->
                               [service_id |-> ServiceKey(answer.items[i].service),
                                rate |-> RateOf(answer.items[i].rate)]]]

\* AdminServices lines 125-128, 132: rateMap.get(key), the last entry wins
AdminRateLookup(providerServices, key) ==
    LET idx == {i \in DOMAIN providerServices : providerServices[i].service_id = key} IN
    IF idx = {} THEN Undef
    ELSE providerServices[CHOOSE i \in idx : \A j \in idx : j <= i].rate

\* list: the services the page holds; the rest as in the job
AvIdle(list) == [pc |-> "idle", list |-> list, services |-> <<>>, providerIds |-> <<>>,
                 p |-> 0, todo |-> <<>>, k |-> 0, updatedCount |-> 0, writes |-> 0,
                 failed |-> FALSE, pairs |-> {}, run |-> 0, prevFailed |-> FALSE]

\* lines 76-91: the page loads the services
fetchData ==
    /\ av.pc \in {"idle", "done"}
    /\ av' = [av EXCEPT !.list = svcT.admin]
    /\ UNCHANGED <<fwdVars, syncVars, balVars, admVars, restVars, svcT, catalogs, rs>>

AvNextProvider(w) ==
    IF w.p < Len(w.providerIds)
      THEN [w EXCEPT !.pc = "fetch", !.p = w.p + 1, !.todo = <<>>, !.k = 0]
      ELSE [w EXCEPT !.pc = "done", !.todo = <<>>, !.k = 0]

AvNextService(w) ==
    IF w.k < Len(w.todo) THEN [w EXCEPT !.k = w.k + 1] ELSE AvNextProvider(w)

\* lines 93-108: the linked services of the page and their providers
syncRatesFromProviders ==
    LET linked   == ById({sid \in DOMAIN av.list :
                             /\ av.list[sid].api_provider_id # NoProvider
                             /\ Truthy(av.list[sid].api_service_id)})
        snapshot == [i \in DOMAIN linked |->
                       [id |-> linked[i],
                        api_provider_id |-> av.list[linked[i]].api_provider_id,
                        api_service_id |-> av.list[linked[i]].api_service_id,
                        original_rate |-> av.list[linked[i]].original_rate]]
        providerIds == ById({snapshot[i].api_provider_id : i \in DOMAIN snapshot})
        start    == [AvIdle(av.list) EXCEPT !.run = av.run + 1, !.prevFailed = av.failed]
    IN
    /\ av.pc = "idle" \/ (av.pc = "done" /\ av.run < 2)
    /\ av' = IF Len(snapshot) = 0 THEN [start EXCEPT !.pc = "done"]
             ELSE [start EXCEPT !.pc = "fetch", !.services = snapshot,
                                !.providerIds = providerIds, !.p = 1,
                                !.pairs = {<<snapshot[i].api_provider_id, snapshot[i].id>> :
                                             i \in DOMAIN snapshot}]
    /\ UNCHANGED <<fwdVars, syncVars, balVars, admVars, restVars, svcT, catalogs, rs>>

\* lines 111-131: fetch-provider-services for the provider, its services
AdmSyncFetch ==
    LET providerId == av.providerIds[av.p]
        response   == FetchProviderServices(providerId)
        todo       == SelectSeq(av.services, LAMBDA s : s.api_provider_id = providerId)
    IN
    /\ av.pc = "fetch"
    /\ av' = IF Truthy(response.error) THEN AvNextProvider(av)
             ELSE [av EXCEPT !.pc = "apply", !.todo = todo, !.k = 1]
    /\ UNCHANGED <<fwdVars, syncVars, balVars, admVars, restVars, svcT, catalogs, rs>>

\* lines 131-148: one service of the provider
AdmSyncApply(dbOk) ==
    LET service == av.todo[av.k]
        newRate == AdminRateLookup(FetchProviderServices(av.providerIds[av.p]).services,
                                   service.api_service_id.s)
    IN
    /\ av.pc = "apply"
    /\ IF NeedsWrite(newRate, service)
         THEN IF dbOk
                THEN /\ svcT' = [svcT EXCEPT !.admin = UpdateService(@, service.id, RateUpdate(newRate))]
                     /\ av' = AvNextService([av EXCEPT !.writes = @ + 1, !.updatedCount = @ + 1,
                                                       !.list[service.id].original_rate = newRate])
                ELSE /\ svcT' = svcT
                     /\ av' = AvNextService([av EXCEPT !.writes = @ + 1, !.failed = TRUE])
         ELSE /\ dbOk
              /\ svcT' = svcT
              /\ av' = AvNextService(av)
    /\ UNCHANGED <<fwdVars, syncVars, balVars, admVars, restVars, catalogs, rs>>

----------------------------------------------------------------------------
(* AdminAPIProviders: fetching a provider's services and importing them *)

Categories == {"c1"}

\* lines 119-126: the state of the import session; clicks counts the uses of
\* the Import button, toast is the last toast shown
ImpIdle == [fetchedServices |-> <<>>, selectedServices |-> {}, selectedCategory |-> "",
            priceMarkup |-> 0, currencyMultiplier |-> 1, currentProviderId |-> "",
            fetchDialogOpen |-> FALSE, clicks |-> 0, toast |-> ""]

\* lines 273-318: the services of the provider, through fetch-provider-services
fetchServicesFromProvider(providerId) ==
    LET data == FetchProviderServices(providerId) IN
    /\ providerId \in DOMAIN api_providers
    /\ imp' = IF Truthy(data.error)
                THEN [imp EXCEPT !.currentProviderId = providerId, !.toast = "Error"]
                ELSE [imp EXCEPT !.currentProviderId = providerId,
                                 !.fetchedServices = data.services,
                                 !.selectedServices = {},
                                 !.currencyMultiplier = 83,
                                 !.fetchDialogOpen = TRUE,
                                 !.toast = "Services Fetched"]
    /\ UNCHANGED <<fwdVars, syncVars, balVars, admVars, rateVars, inserted, keyVars>>

\* lines 320-330
toggleServiceSelection(serviceId) ==
    /\ imp.fetchDialogOpen
    /\ \E i \in DOMAIN imp.fetchedServices : imp.fetchedServices[i].service_id = serviceId
    /\ imp' = [imp EXCEPT !.selectedServices =
                 IF serviceId \in @ THEN @ \ {serviceId} ELSE @ \cup {serviceId}]
    /\ UNCHANGED <<fwdVars, syncVars, balVars, admVars, rateVars, inserted, keyVars>>

\* lines 332-348, with an empty search box: filteredServices is fetchedServices
selectAllFiltered ==
    LET filteredServices == imp.fetchedServices IN
    /\ imp.fetchDialogOpen
    /\ imp' = [imp EXCEPT !.selectedServices =
                 IF Cardinality(@) = Len(filteredServices) /\ Len(filteredServices) > 0
                   THEN {}
                   ELSE {filteredServices[i].service_id : i \in DOMAIN filteredServices}]
    /\ UNCHANGED <<fwdVars, syncVars, balVars, admVars, rateVars, inserted, keyVars>>

\* line 701: the select offers the categories
setSelectedCategory(category) ==
    /\ imp.fetchDialogOpen
    /\ category \in Categories
    /\ imp' = [imp EXCEPT !.selectedCategory = category]
    /\ UNCHANGED <<fwdVars, syncVars, balVars, admVars, rateVars, inserted, keyVars>>

\* line 719: Number(e.target.value) || 1
setCurrencyMultiplier(value) ==
    /\ imp.fetchDialogOpen
    /\ imp' = [imp EXCEPT !.currencyMultiplier = IF value = 0 THEN 1 ELSE value]
    /\ UNCHANGED <<fwdVars, syncVars, balVars, admVars, rateVars, inserted, keyVars>>

\* line 730
setPriceMarkup(value) ==
    /\ imp.fetchDialogOpen
    /\ imp' = [imp EXCEPT !.priceMarkup = value]
    /\ UNCHANGED <<fwdVars, syncVars, balVars, admVars, rateVars, inserted, keyVars>>

\* the import goes on without a category
ImportRefused_noCategory(selectedServices, selectedCategory) ==
    IF selectedServices = {} THEN "No services selected" ELSE ""

\* lines 359-375: the guards of the import, by the toast they show
ImportRefused(selectedServices, selectedCategory) ==
    IF selectedServices = {} THEN "No services selected"
    ELSE IF selectedCategory = "" THEN "No category selected"
    ELSE ""

\* lines 380-396: the rows to insert; rates and prices in hundredths; name,
\* description, min and max are copied from the fetched row and left out
servicesToImport ==
    LET chosen == SelectSeq(imp.fetchedServices,
                            LAMBDA s : s.service_id \in imp.selectedServices)
    IN [i \in DOMAIN chosen |->
          LET convertedRate == chosen[i].rate.n * imp.currencyMultiplier IN
          [original_rate |-> convertedRate,
           price_per_1000 |-> (convertedRate * (100 + imp.priceMarkup)) \div 100,
           category_id |-> imp.selectedCategory,
           api_service_id |-> chosen[i].service_id,
           api_provider_id |-> imp.currentProviderId,
           is_active |-> TRUE]]

\* lines 358-427
importSelectedServices(dbOk) ==
    LET refusal == ImportRefused(imp.selectedServices, imp.selectedCategory) IN
    /\ imp.clicks < MaxImports
    /\ IF refusal # ""
         THEN /\ dbOk
              /\ imp' = [imp EXCEPT !.clicks = @ + 1, !.toast = refusal]
              /\ inserted' = inserted
         ELSE IF dbOk
           THEN /\ inserted' = inserted \o servicesToImport
                /\ imp' = [ImpIdle EXCEPT !.clicks = imp.clicks + 1, !.toast = "Success",
                                          !.currentProviderId = imp.currentProviderId]
           ELSE /\ inserted' = inserted
                /\ imp' = [imp EXCEPT !.clicks = @ + 1, !.toast = "Error"]
    /\ UNCHANGED <<fwdVars, syncVars, balVars, admVars, rateVars, keyVars>>

----------------------------------------------------------------------------
(* The provider's api_key in the log lines and the error messages of
   forward-order, fetch-provider-services and sync-order-status.  A text is
   a sequence of characters; a line starts with its fixed label. *)

KeyAlphabet == {"x", "+"}

RECURSIVE TextsUpTo(_)
TextsUpTo(len) ==
    IF len = 0 THEN {<<>>}
    ELSE LET shorter == TextsUpTo(len - 1) IN
         shorter \cup {Append(s, c) : s \in shorter, c \in KeyAlphabet}

\* api_providers.api_key: text NOT NULL
ApiKeys == TextsUpTo(MaxKeyLen) \ {<<>>}

\* URLSearchParams serialisation of one character
EncodeChar(c) ==
    CASE c = "+" -> <<"%", "2", "B">>
      [] c = " " -> <<"+">>
      [] OTHER -> <<c>>

RECURSIVE UrlEncode(_)
UrlEncode(text) ==
    IF text = <<>> THEN <<>> ELSE EncodeChar(Head(text)) \o UrlEncode(Tail(text))

\* the places at which pat occurs in text
Occurrences(text, pat) ==
    {i \in 1..(Len(text) - Len(pat) + 1) : SubSeq(text, i, i + Len(pat) - 1) = pat}

Contains(text, pat) == Occurrences(text, pat) # {}

\* text.replace(pat, repl) with a string pattern: the first occurrence only
Replace(text, pat, repl) ==
    LET occ == Occurrences(text, pat) IN
    IF occ = {} THEN text
    ELSE LET i == CHOOSE j \in occ : \A k \in occ : j <= k IN
         SubSeq(text, 1, i - 1) \o repl \o SubSeq(text, i + Len(pat), Len(text))

\* apiUrl.toString().replace(provider.api_key, '***')
MaskedUrl(url, api_key) == Replace(url, api_key, <<"*", "*", "*">>)

\* new URL(provider.api_url) with searchParams key and action, toString()
RequestUrl(api_key, action) ==
    <<"/", "/", "p", "/", "v", "2", "?", "k", "e", "y", "=">> \o UrlEncode(api_key)
      \o <<"&", "a", "c", "t", "i", "o", "n", "=">> \o action

\* what the provider answers: ok is response.ok, text the body, json the
\* parsed body; a body that is not JSON has json = KeyNotJson
KeyNotJson == [parses |-> FALSE, error |-> Undef, order |-> Undef]

PlainBody(ok, msg) == [ok |-> ok, text |-> msg, json |-> KeyNotJson]

ErrorBody(ok, msg) ==
    [ok |-> ok, text |-> <<"{", "e", "r", "r", ":">> \o msg \o <<"}">>,
     json |-> [parses |-> TRUE, error |-> Str(msg), order |-> Undef]]

OrderBody ==
    [ok |-> TRUE, text |-> <<"{", "o", "r", "d", ":", "7", "}">>,
     json |-> [parses |-> TRUE, error |-> Undef, order |-> Num(7)]]

\* the provider's messages: one fixed, one that repeats the key it was sent
ProviderMessages(api_key) == {<<"n", "o">>, <<"b", "a", "d", " ">> \o api_key}

ProviderAnswers(api_key) ==
    {OrderBody} \cup
    UNION {{PlainBody(ok, msg), ErrorBody(ok, msg)} :
              ok \in BOOLEAN, msg \in ProviderMessages(api_key)}

NoKeyLog == [api_key |-> <<>>, calls |-> 0, logs |-> {}, errors |-> {}]

\* one invocation: its console lines and the error text of its response
KeyCall(lines, messages) ==
    /\ klog.calls < MaxCalls
    /\ klog' = [klog EXCEPT !.calls = @ + 1,
                            !.logs = @ \cup lines,
                            !.errors = @ \cup messages]
    /\ UNCHANGED <<fwdVars, syncVars, balVars, admVars, rateVars, impVars>>

\* forward-order lines 109-198: the lines logged and the error returned
\* from the provider's row on
KeyForward(answer) ==
    LET url == RequestUrl(klog.api_key, <<"a", "d", "d">>)
        calling == <<"Calling API: ">> \o MaskedUrl(url, klog.api_key)
        response == <<"API Response: ">> \o answer.text
    IN
    IF ~answer.json.parses
      THEN KeyCall({calling, response, <<"Failed to parse API response:">> \o answer.text},
                   {<<"Invalid response from API provider">> \o answer.text})
    ELSE IF Truthy(answer.json.error)
      THEN KeyCall({calling, response, <<"API error:">> \o answer.json.error.s},
                   {answer.json.error.s})
    ELSE KeyCall({calling, response, <<"External order ID: ">>}, {})

\* fetch-provider-services lines 101-167
KeyCatalog(answer) ==
    LET url == RequestUrl(klog.api_key, <<"s", "e", "r", "v", "i", "c", "e", "s">>)
        apiUrl == <<"API URL: ", "/", "/", "p", "/", "v", "2">>
        full == <<"Full request URL: ">> \o MaskedUrl(url, klog.api_key)
    IN
    IF ~answer.ok
      THEN KeyCall({apiUrl, full, <<"API response error: ">> \o answer.text},
                   {<<"API request failed: ">> \o answer.text})
    ELSE IF ~answer.json.parses
      THEN KeyCall({apiUrl, full, <<"Error in fetch-provider-services:">>},
                   {<<"error.message">>})
    ELSE IF Truthy(answer.json.error)
      THEN KeyCall({apiUrl, full, <<"Fetched 0 services from provider">>},
                   {answer.json.error.s})
    ELSE KeyCall({apiUrl, full, <<"Fetched 0 services from provider">>}, {})

\* sync-order-status lines 71-98, 149-151: one order of the sweep
KeyStatus(answer) ==
    LET checking == <<"Checking status for order ">> IN
    IF ~answer.ok
      THEN KeyCall({checking, <<"API error for order ">>}, {})
    ELSE IF ~answer.json.parses
      THEN KeyCall({checking, <<"Error processing order ">>}, {})
    ELSE IF Truthy(answer.json.error)
      THEN KeyCall({checking, <<"Status response for order ">> \o answer.text,
                    <<"API returned error for order ">> \o answer.json.error.s}, {})
    ELSE KeyCall({checking, <<"Status response for order ">> \o answer.text}, {})

----------------------------------------------------------------------------
(* AdminOrders: the status select of an order row *)

OrderStatuses == {"pending", "processing", "completed", "partial", "cancelled"}

AdmIdle == [updating |-> NoId, newStatus |-> ""]

\* lines 68-69, with the select of lines 186-201: setUpdating(orderId)
updateStatus(orderId, newStatus) ==
    /\ adm = AdmIdle
    /\ orderId \in DOMAIN orders
    /\ adm' = [updating |-> orderId, newStatus |-> newStatus]
    /\ UNCHANGED <<fwdVars, syncVars, balVars, rateVars, restVars>>

\* lines 71-91: the update of the row, setUpdating(null)
UpdateStatusWrite(dbOk) ==
    /\ adm # AdmIdle
    /\ orders' = IF dbOk
                   THEN [orders EXCEPT ![adm.updating] = ApplyUpdate(@, [status |-> adm.newStatus])]
                   ELSE orders
    /\ adm' = AdmIdle
    /\ UNCHANGED <<orders0, fw, syncVars, balVars, rateVars, restVars>>

----------------------------------------------------------------------------
(* Idle values of the parts a specification does not run *)

IdleSync == sw = [s \in Sweeps |-> SwIdle] /\ answers = [o \in OrderIds |-> Finished]

\* table services with one cached rate for every linked service
ServiceTable(rate) ==
    [sid \in DOMAIN services |->
        ServiceRow(sid, IF services[sid].api_provider_id # NoProvider
                           /\ services[sid].api_service_id # JNull THEN rate ELSE JNull)]

IdleRates ==
    /\ svcT = [job |-> ServiceTable(JNull), admin |-> ServiceTable(JNull)]
    /\ catalogs = [pid \in DOMAIN api_providers |-> CatalogHttpError]
    /\ rs = RsIdle
    /\ av = AvIdle(ServiceTable(JNull))

IdleKeys == klog = NoKeyLog

IdleImport == imp = ImpIdle /\ inserted = <<>>

IdleBal ==
    /\ adm = AdmIdle
    /\ IdleImport
    /\ balance = 200 /\ applied = 0 /\ profile = 200 /\ users = 200
    /\ payments = [p \in PaymentIds |-> "pending"]
    /\ place = PlaceIdle
    /\ approve = [a \in Admins |-> ApproveIdle(payments)]
    /\ adjust = AdjustIdle(0)
----------------------------------------------------------------------------
(* The forwarder: orders as created, any service reference *)

InitFwd ==
    /\ \E sv \in [OrderIds -> ServiceRefs] :
          orders = [o \in OrderIds |-> NewOrder(o, sv[o])]
    /\ orders0 = orders
    /\ fw = FwIdle
    /\ IdleSync
    /\ IdleBal
    /\ IdleKeys
    /\ IdleRates

NextFwd ==
    \/ \E caller \in Callers, oid \in OrderIds \cup {NoId, MaxOrders + 1} : FwdBegin(caller, oid)
    \/ \E apiResponse \in AddOutcomes, dbOk \in BOOLEAN : FwdReceive(apiResponse, dbOk)
    \/ FwdReturn

SpecFwd == InitFwd /\ [][NextFwd]_vars

----------------------------------------------------------------------------
(* The reconciler: sweeps that overlap, over orders in every situation *)

ExtId == Str(<<"4", "2">>)

OrderAt(o, sid, status, ext) ==
    [NewOrder(o, sid) EXCEPT !.status = status, !.external_order_id = ext]


\* what a provider does with the status call of an order in processing
SweepAnswers ==
    { CallFails, Hang, BusinessError,
      StatusJson(Undef, Str(<<"P", "a", "r", "t", "i", "a", "l">>), Undef, Str(<<"4", "0">>)),
      StatusJson(Undef, Str(<<"P", "e", "n", "d", "i", "n", "g">>), Undef, Undef),
      StatusJson(Undef, Undef, Undef, Undef) }

\* and of an order in pending
EarlyAnswer == StatusJson(Undef, Str(<<"I", "n", " ", "p", "r", "o", "g", "r", "e", "s", "s">>), Str(<<"1", "0">>), Undef)

\* an order and what its provider answers: an order the sweep asks about, one
\* whose provider is inactive (s2) or gone (s3), one that is not selected
Situations(o) ==
    { <<OrderAt(o, "s1", "processing", ExtId), a>> : a \in SweepAnswers }
    \cup { <<OrderAt(o, "s1", "pending", ExtId), EarlyAnswer>>,
           <<OrderAt(o, IF o % 2 = 1 THEN "s2" ELSE "s3", "processing", ExtId), Finished>>,
           <<OrderAt(o, "s1", "completed", ExtId), Finished>>,
           <<OrderAt(o, "s1", "pending", JNull), Finished>> }

InitSync ==
    /\ \E sit \in [OrderIds -> UNION {Situations(o) : o \in OrderIds}] :
          /\ \A o \in OrderIds : sit[o] \in Situations(o)
          /\ orders = [o \in OrderIds |-> sit[o][1]]
          /\ answers = [o \in OrderIds |-> sit[o][2]]
    /\ orders0 = orders
    /\ sw = [s \in Sweeps |-> SwIdle]
    /\ fw = FwIdle
    /\ IdleBal
    /\ IdleKeys
    /\ IdleRates

NextSync ==
    \/ \E s \in Sweeps, dbOk \in BOOLEAN : SyncSelect(s, dbOk)
    \/ \E s \in Sweeps : SyncFetch(s)
    \/ \E s \in Sweeps, dbOk \in BOOLEAN : SyncWrite(s, dbOk)

SpecSync == InitSync /\ [][NextSync]_vars

----------------------------------------------------------------------------
(* The reconciler on one order, over the status texts and counts a provider *)
(* can send                                                                 *)

StatusTexts ==
    { <<"c", "o", "m", "p", "l", "e", "t", "e", "d">>,
      <<"C", "o", "m", "p", "l", "e", "t", "e", "d">>,
      <<"C", "O", "M", "P", "L", "E", "T", "E", "D">>,
      <<"p", "a", "r", "t", "i", "a", "l">>,
      <<"P", "a", "r", "t", "i", "a", "l">>,
      <<"P", "A", "R", "T", "I", "A", "L">>,
      <<"c", "a", "n", "c", "e", "l", "l", "e", "d">>,
      <<"C", "a", "n", "c", "e", "l", "l", "e", "d">>,
      <<"C", "A", "N", "C", "E", "L", "L", "E", "D">>,
      <<"c", "a", "n", "c", "e", "l", "e", "d">>,
      <<"C", "a", "n", "c", "e", "l", "e", "d">>,
      <<"C", "A", "N", "C", "E", "L", "E", "D">>,
      <<"i", "n", " ", "p", "r", "o", "g", "r", "e", "s", "s">>,
      <<"I", "n", " ", "p", "r", "o", "g", "r", "e", "s", "s">>,
      <<"I", "N", " ", "P", "R", "O", "G", "R", "E", "S", "S">>,
      <<"i", "n", "p", "r", "o", "g", "r", "e", "s", "s">>,
      <<"I", "n", "p", "r", "o", "g", "r", "e", "s", "s">>,
      <<"I", "N", "P", "R", "O", "G", "R", "E", "S", "S">>,
      <<"p", "r", "o", "c", "e", "s", "s", "i", "n", "g">>,
      <<"P", "r", "o", "c", "e", "s", "s", "i", "n", "g">>,
      <<"P", "R", "O", "C", "E", "S", "S", "I", "N", "G">>,
      <<"p", "e", "n", "d", "i", "n", "g">>,
      <<"P", "e", "n", "d", "i", "n", "g">>,
      <<"P", "E", "N", "D", "I", "N", "G">>,
      <<"I", "n", " ", "P", "r", "o", "g", "r", "e", "s", "s">>,
      <<"I", "n", "P", "r", "o", "g", "r", "e", "s", "s">>,
      <<"c", "O", "m", "P", "l", "E", "t", "E", "d">>,
      <<"R", "e", "f", "u", "n", "d", "e", "d">>,
      <<"c", "o", "m", "p", "l", "e", "t", "e">>,
      <<"C", "o", "m", "p", "l", "e", "t", "e", "d", " ">>,
      <<" ", "p", "e", "n", "d", "i", "n", "g">>,
      <<"i", "n", " ", " ", "p", "r", "o", "g", "r", "e", "s", "s">>,
      <<"f", "a", "i", "l", "e", "d">>,
      <<>> }

StatusValues == {Str(x) : x \in StatusTexts} \cup {Undef, JNull}

CountValues ==
    { Undef, JNull, Num(0), Num(40), Str(<<"0">>), Str(<<"4", "0">>), Str(<<"1", "0">>),
      Str(<<" ", "7">>), Str(<<"4", "x">>), Str(<<"x">>), Str(<<>>) }

InitSyncWide ==
    /\ \E st \in {"pending", "processing"}, x \in StatusValues,
          sc \in CountValues, rem \in CountValues :
          /\ orders = [o \in OrderIds |->
                         IF o = 1 THEN OrderAt(o, "s1", st, ExtId)
                         ELSE OrderAt(o, "s1", "pending", JNull)]
          /\ answers = [o \in OrderIds |->
                         IF o = 1 THEN StatusJson(Undef, x, sc, rem) ELSE Finished]
    /\ orders0 = orders
    /\ sw = [s \in Sweeps |-> SwIdle]
    /\ fw = FwIdle
    /\ IdleBal
    /\ IdleKeys
    /\ IdleRates

SpecSyncWide == InitSyncWide /\ [][NextSync]_vars

----------------------------------------------------------------------------
(* The balance: a user with 200, a payment of 100 awaiting approval *)

InitBal ==
    /\ orders = <<>>
    /\ orders0 = orders
    /\ fw = FwIdle
    /\ IdleSync
    /\ IdleBal
    /\ IdleKeys
    /\ IdleRates

NextBal ==
    \/ \E sid \in {"", "s1"}, linkOk \in BOOLEAN, quantity \in {0, 20, 1000, 20000},
          dbOk \in BOOLEAN : PlaceSubmit(sid, linkOk, quantity, dbOk)
    \/ \E dbOk \in BOOLEAN : PlaceDebit(dbOk)
    \/ PlaceRefresh
    \/ refreshProfile
    \/ \E a \in Admins : fetchPayments(a)
    \/ \E a \in Admins, p \in PaymentIds, dbOk \in BOOLEAN : ApproveBegin(a, p, dbOk)
    \/ \E a \in Admins : ApproveRead(a)
    \/ \E a \in Admins, dbOk \in BOOLEAN : ApproveWrite(a, dbOk)
    \/ \E a \in Admins, p \in PaymentIds, dbOk \in BOOLEAN : handleReject(a, p, dbOk)
    \/ fetchUsers
    \/ \E adjustment \in {-300, -30} : AdjustBegin(adjustment)
    \/ \E dbOk \in BOOLEAN : AdjustWrite(dbOk)

SpecBal == InitBal /\ [][NextBal]_vars

----------------------------------------------------------------------------
(* Order placement over quantities on both sides of the service's limits    *)
(* and of the balance, with the admin's adjustment and the forwarder        *)

InitPlace ==
    /\ orders = <<>>
    /\ orders0 = orders
    /\ fw = FwIdle
    /\ IdleSync
    /\ IdleBal
    /\ IdleKeys
    /\ IdleRates

NextPlace ==
    \/ \E sid \in {"", "s1"}, linkOk \in BOOLEAN, quantity \in {0, 20, 100, 3000, 10000, 20000},
          dbOk \in BOOLEAN : PlaceSubmit(sid, linkOk, quantity, dbOk)
    \/ \E dbOk \in BOOLEAN : PlaceDebit(dbOk)
    \/ PlaceRefresh
    \/ refreshProfile
    \/ \E adjustment \in {-30} : AdjustBegin(adjustment)
    \/ AdjustWrite(TRUE)
    \/ FwdBegin("u1", 1)
    \/ FwdReceive(AddJson(Undef, Num(42), Undef), TRUE)
    \/ FwdReturn

SpecPlace == InitPlace /\ [][NextPlace]_vars

----------------------------------------------------------------------------
(* The life of an order: placed by the user, forwarded, reconciled, and set *)
(* by the admin                                                             *)

\* what the provider answers to add
LifeAddOutcomes ==
    { AddJson(Undef, Num(42), Undef), AddJson(Undef, Undef, Undef),
      AddJson(BadLink, Undef, Undef) }

InitLife ==
    /\ orders = <<>>
    /\ orders0 = orders
    /\ fw = FwIdle
    /\ sw = [s \in Sweeps |-> SwIdle]
    /\ answers = [o \in OrderIds |-> IF o = 1 THEN EarlyAnswer ELSE Finished]
    /\ IdleBal
    /\ IdleKeys
    /\ IdleRates

NextLife ==
    \/ PlaceSubmit("s1", TRUE, 2000, TRUE)
    \/ PlaceDebit(TRUE)
    \/ PlaceRefresh
    \/ \E oid \in OrderIds : FwdBegin("u1", oid)
    \/ \E apiResponse \in LifeAddOutcomes : FwdReceive(apiResponse, TRUE)
    \/ FwdReturn
    \/ SyncSelect(1, TRUE)
    \/ SyncFetch(1)
    \/ SyncWrite(1, TRUE)
    \/ \E o \in OrderIds, newStatus \in {"pending", "processing", "completed"} :
          updateStatus(o, newStatus)
    \/ UpdateStatusWrite(TRUE)

SpecLife == InitLife /\ [][NextLife]_vars

----------------------------------------------------------------------------
(* Orders that are placed, forwarded and reconciled, with no admin at work  *)

AutoAnswers ==
    { EarlyAnswer, Finished, BusinessError,
      StatusJson(Undef, Str(<<"P", "a", "r", "t", "i", "a", "l">>), Undef, Str(<<"4", "0">>)),
      StatusJson(Undef, Str(<<"P", "e", "n", "d", "i", "n", "g">>), Undef, Undef) }

\* what the provider answers to add: an id either way, none, an empty one, an
\* error
AutoAddOutcomes ==
    { AddJson(Undef, Num(42), Undef), AddJson(Undef, Undef, Num(7)),
      AddJson(Undef, Undef, Undef), AddJson(Undef, Str(<<>>), Undef),
      AddJson(BadLink, Num(42), Undef) }

InitAuto ==
    /\ orders = <<>>
    /\ orders0 = orders
    /\ fw = FwIdle
    /\ sw = [s \in Sweeps |-> SwIdle]
    /\ \E a \in AutoAnswers : answers = [o \in OrderIds |-> IF o = 1 THEN a ELSE Finished]
    /\ IdleBal
    /\ IdleKeys
    /\ IdleRates

NextAuto ==
    \/ PlaceSubmit("s1", TRUE, 2000, TRUE)
    \/ PlaceDebit(TRUE)
    \/ PlaceRefresh
    \/ \E oid \in OrderIds : FwdBegin("u1", oid)
    \/ \E apiResponse \in AutoAddOutcomes, dbOk \in BOOLEAN : FwdReceive(apiResponse, dbOk)
    \/ FwdReturn
    \/ SyncSelect(1, TRUE)
    \/ SyncFetch(1)
    \/ SyncWrite(1, TRUE)

SpecAuto == InitAuto /\ [][NextAuto]_vars

----------------------------------------------------------------------------
(* Rate sync: the job and the admin's Sync Rates, each on its own copy of   *)
(* table services, from the same start and the same provider catalogs       *)

\* the service id a provider lists, as text and as number
Svc12  == Str(<<"1", "2">>)

ActiveCatalogs ==
    { CatalogHttpError, CatalogError,
      CatalogArray(<<CatalogItem(Svc12, Str(<<"0", ".", "5", "0">>))>>),
      CatalogArray(<<CatalogItem(Num(12), Num(300)),
                     CatalogItem(Str(<<"9", "9">>), Str(<<"7">>))>>),
      CatalogArray(<<CatalogItem(Svc12, Str(<<"n", "/", "a">>))>>),
      CatalogArray(<<CatalogItem(Svc12, Str(<<"1", ".", "5">>)),
                     CatalogItem(Num(12), Str(<<" ", "0", ".", "5">>))>>) }

InactiveCatalogs ==
    { CatalogHttpError, CatalogArray(<<CatalogItem(Svc12, Str(<<"0", ".", "5", "0">>))>>) }

InitRates ==
    /\ orders = [o \in OrderIds |-> NewOrder(o, "s1")]
    /\ orders0 = orders
    /\ fw = FwIdle
    /\ IdleSync
    /\ IdleBal
    /\ IdleKeys
    /\ \E rate \in {JNull, Num(50), Num(300)} :
          /\ svcT = [job |-> ServiceTable(rate), admin |-> ServiceTable(rate)]
          /\ av = AvIdle(ServiceTable(rate))
    /\ \E a \in ActiveCatalogs, b \in InactiveCatalogs :
          catalogs = [pid \in DOMAIN api_providers |->
                         IF api_providers[pid].is_active THEN a ELSE b]
    /\ rs = RsIdle

NextRates ==
    \/ \E dbOk \in BOOLEAN : RateSelect(dbOk)
    \/ RateFetch
    \/ \E dbOk \in BOOLEAN : RateApply(dbOk)
    \/ fetchData
    \/ syncRatesFromProviders
    \/ AdmSyncFetch
    \/ \E dbOk \in BOOLEAN : AdmSyncApply(dbOk)

SpecRates == InitRates /\ [][NextRates]_vars

\* the AdminAPIProviders page: fetching and importing, the rest at rest
ImportCatalogs ==
    { CatalogHttpError,
      CatalogArray(<<CatalogItem(Svc12, Str(<<"0", ".", "5", "0">>))>>),
      CatalogArray(<<CatalogItem(Num(12), Num(300)),
                     CatalogItem(Str(<<"9", "9">>), Str(<<"7">>))>>) }

InitImport ==
    /\ orders = [o \in OrderIds |-> NewOrder(o, "s1")]
    /\ orders0 = orders
    /\ fw = FwIdle
    /\ IdleSync
    /\ IdleBal
    /\ IdleKeys
    /\ svcT = [job |-> ServiceTable(JNull), admin |-> ServiceTable(JNull)]
    /\ av = AvIdle(ServiceTable(JNull))
    /\ rs = RsIdle
    /\ \E a \in ImportCatalogs :
          catalogs = [pid \in DOMAIN api_providers |->
                         IF api_providers[pid].is_active THEN a ELSE CatalogHttpError]

NextImport ==
    \/ \E providerId \in DOMAIN api_providers : fetchServicesFromProvider(providerId)
    \/ \E serviceId \in {<<"1", "2">>, <<"9", "9">>} : toggleServiceSelection(serviceId)
    \/ selectAllFiltered
    \/ \E category \in Categories : setSelectedCategory(category)
    \/ \E value \in {0, 2} : setCurrencyMultiplier(value)
    \/ \E value \in {0, 50} : setPriceMarkup(value)
    \/ \E dbOk \in BOOLEAN : importSelectedServices(dbOk)

SpecImport == InitImport /\ [][NextImport]_vars

\* the three provider operations of one provider, by what they log and return
InitKeys ==
    /\ orders = [o \in OrderIds |-> NewOrder(o, "s1")]
    /\ orders0 = orders
    /\ fw = FwIdle
    /\ IdleSync
    /\ IdleBal
    /\ IdleRates
    /\ \E api_key \in ApiKeys : klog = [NoKeyLog EXCEPT !.api_key = api_key]

NextKeys ==
    \/ \E answer \in ProviderAnswers(klog.api_key) : KeyForward(answer)
    \/ \E answer \in ProviderAnswers(klog.api_key) : KeyCatalog(answer)
    \/ \E answer \in ProviderAnswers(klog.api_key) : KeyStatus(answer)

SpecKeys == InitKeys /\ [][NextKeys]_vars

----------------------------------------------------------------------------
(* Claims about forward-order *)

\* the step in which the invocation handles the provider's answer
FwdAnswered == fw.pc = "sent" /\ fw'.pc = "done"

\* the decimal text of the numbers the providers of the model send
DecimalText(k) ==
    CASE k = 0 -> <<"0">>
      [] k = 7 -> <<"7">>
      [] k = 42 -> <<"4", "2">>

\* a field that carries a value: a number, or a string that is not empty
CarriesValue(v) == v.t = "num" \/ (v.t = "str" /\ v.s # <<>>)

TextOf(v) == IF v.t = "num" THEN DecimalText(v.n) ELSE v.s

\* the id the provider gave: its order field, else its id field
GivenId(r) == IF CarriesValue(r.order) THEN TextOf(r.order) ELSE TextOf(r.id)

\* C1: when the add response is JSON with no error field and carries an
\* order or id value, the invocation issues the update {external_order_id:
\* that value as a string (order before id), status: processing}, and with
\* the update applied the order row holds exactly these.
C1_SuccessStoresExternalId ==
    [][ ( /\ FwdAnswered
          /\ fw'.apiResponse.kind = "json"
          /\ fw'.apiResponse.error = Undef
          /\ (CarriesValue(fw'.apiResponse.order) \/ CarriesValue(fw'.apiResponse.id)) )
        => /\ fw'.upd = [external_order_id |-> Str(GivenId(fw'.apiResponse)),
                         status |-> "processing"]
           /\ fw'.dbOk =>
                /\ orders'[fw.orderId].status = "processing"
                /\ orders'[fw.orderId].external_order_id = Str(GivenId(fw'.apiResponse))
      ]_vars

C1_Witness ==
    /\ fw.pc = "done"
    /\ fw.apiResponse = AddJson(Undef, Num(42), Num(7))
    /\ fw.dbOk
    /\ orders[fw.orderId].status = "processing"
    /\ orders[fw.orderId].external_order_id = Str(<<"4", "2">>)

\* C2: when the add response carries an error, the invocation issues the
\* update {status: cancelled} (applied: the order is cancelled), leaves
\* external_order_id as it was (null stays null), and answers the provider's
\* error message with a status that is not 500.
C2_ProviderErrorCancels ==
    [][ ( /\ FwdAnswered
          /\ fw'.apiResponse.kind = "json"
          /\ CarriesValue(fw'.apiResponse.error) )
        => /\ fw'.upd = [status |-> "cancelled"]
           /\ fw'.dbOk => orders'[fw.orderId].status = "cancelled"
           /\ orders'[fw.orderId].external_order_id = orders[fw.orderId].external_order_id
           /\ fw'.http.status = 400
           /\ fw'.http.error = fw'.apiResponse.error
      ]_vars

C2_Witness ==
    /\ fw.pc = "done"
    /\ fw.apiResponse = AddJson(BadLink, Num(42), Undef)
    /\ fw.dbOk
    /\ fw.http.status = 400
    /\ fw.http.error = BadLink
    /\ orders[fw.orderId].status = "cancelled"
    /\ orders[fw.orderId].external_order_id = JNull

\* the order's service lacks a provider id or a provider-service id, or the
\* order has no service
Unlinked(row) ==
    \/ row.service_id \notin DOMAIN services
    \/ services[row.service_id].api_service_id = JNull
    \/ services[row.service_id].api_provider_id = NoProvider

\* C3: an invocation by the owner on an order whose service is unlinked
\* answers success with forwarded = false, sends no request to a provider,
\* and leaves every order row unchanged.
C3_UnlinkedNotForwarded ==
    [][ ( /\ fw.pc = "idle"
          /\ fw'.pc # "idle"
          /\ fw'.orderId \in DOMAIN orders
          /\ orders[fw'.orderId].user_id = fw'.caller
          /\ Unlinked(orders[fw'.orderId]) )
        => /\ fw'.pc = "done"
           /\ fw'.http.status = 200
           /\ fw'.http.success = JTrue
           /\ fw'.http.forwarded = JFalse
           /\ fw'.nreq = 0
           /\ orders' = orders
      ]_vars

C3_Witness ==
    /\ fw.pc = "done"
    /\ fw.orderId \in DOMAIN orders
    /\ orders[fw.orderId].service_id = "s4"
    /\ orders[fw.orderId].user_id = fw.caller
    /\ fw.http.forwarded = JFalse
    /\ fw.nreq = 0

\* the order's service is linked, and its provider has no row or is not active
ProviderGone(row) ==
    /\ ~Unlinked(row)
    /\ \/ services[row.service_id].api_provider_id \notin DOMAIN api_providers
       \/ ~api_providers[services[row.service_id].api_provider_id].is_active

\* C11: an invocation by the owner on an order whose linked service names a
\* provider that is missing or not active ends with the provider-unavailable
\* error, sends no request to a provider, and leaves the order's status and
\* external_order_id (every order row) unchanged.
C11_ProviderUnavailable ==
    [][ ( /\ fw.pc = "idle"
          /\ fw'.pc # "idle"
          /\ fw'.orderId \in DOMAIN orders
          /\ orders[fw'.orderId].user_id = fw'.caller
          /\ ProviderGone(orders[fw'.orderId]) )
        => /\ fw'.pc = "done"
           /\ fw'.http.status = 400
           /\ fw'.http.success = JFalse
           /\ fw'.http.error = Msg("API provider not found or inactive")
           /\ fw'.nreq = 0
           /\ orders' = orders
      ]_vars

C11_Witness ==
    /\ fw.pc = "done"
    /\ fw.orderId \in DOMAIN orders
    /\ orders[fw.orderId].service_id = "s2"
    /\ orders[fw.orderId].user_id = fw.caller
    /\ fw.http.status = 400
    /\ fw.nreq = 0
    /\ orders[fw.orderId].status = "pending"
    /\ orders[fw.orderId].external_order_id = JNull

\* C12: when the add call throws or its body is not JSON, the invocation
\* answers HTTP 500 and every order row, so the order's status and
\* external_order_id, is as it was before the invocation.
C12_HardErrorLeavesOrder ==
    [][ ( /\ FwdAnswered
          /\ fw'.apiResponse.kind \in {"throw", "text"} )
        => /\ fw'.http.status = 500
           /\ fw'.upd = NoUpdate
           /\ orders'[fw.orderId].status = orders[fw.orderId].status
           /\ orders'[fw.orderId].external_order_id = orders[fw.orderId].external_order_id
           /\ orders' = orders
      ]_vars

C12_Witness ==
    /\ fw.pc = "done"
    /\ fw.apiResponse = NotJson
    /\ fw.http.status = 500
    /\ orders[fw.orderId].status = "pending"
    /\ orders[fw.orderId].external_order_id = JNull

\* C13: an invocation whose caller has no valid token, or is not the user of
\* the order it names, ends at once: no add request is sent and no order row
\* is modified.
C13_OwnershipBeforeForwarding ==
    [][ ( /\ fw.pc = "idle"
          /\ fw'.pc # "idle"
          /\ \/ fw'.caller \notin Users
             \/ /\ fw'.orderId \in DOMAIN orders
                /\ orders[fw'.orderId].user_id # fw'.caller )
        => /\ fw'.pc = "done"
           /\ fw'.http.status \in {401, 403}
           /\ fw'.nreq = 0
           /\ orders' = orders
      ]_vars

C13_Witness ==
    /\ fw.pc = "done"
    /\ fw.caller \in Users
    /\ fw.orderId \in DOMAIN orders
    /\ orders[fw.orderId].user_id # fw.caller
    /\ orders[fw.orderId].service_id = "s1"
    /\ fw.http.status = 403
    /\ fw.nreq = 0

\* the step is an invocation by the order's owner, for an order whose service
\* is linked to a provider that has an active row
ForwardableCall ==
    /\ fw.pc = "idle" /\ fw'.pc # "idle"
    /\ fw'.orderId \in DOMAIN orders
    /\ fw'.caller = orders[fw'.orderId].user_id
    /\ LET service == ServiceOf(orders[fw'.orderId]) IN
         /\ Truthy(service.api_service_id)
         /\ service.api_provider_id \in DOMAIN api_providers
         /\ api_providers[service.api_provider_id].is_active

\* C21: for an order with a linked service and an active provider, every
\* invocation (one that passed authentication and the ownership check)
\* issues exactly one add request, whether or not the order already has an
\* external id and whatever its status is
C21_NoIdempotencyGuard ==
    [][ ForwardableCall => fw'.pc = "sent" /\ fw'.nreq = 1 ]_vars

\* a second invocation for an order that the first one stored as processing
\* with its external id has sent its add request
C21_Witness ==
    /\ fw.pc = "sent"
    /\ fw.nreq = 1
    /\ orders[fw.orderId].external_order_id # JNull
    /\ orders[fw.orderId].status = "processing"

\* C28: whenever an invocation answers success = true with forwarded = true,
\* the stored order is in processing and its stored external_order_id is not
\* null and equals the externalOrderId of the answer, also when the
\* provider's JSON has neither order nor id and when the update fails
C28_SuccessReflectsStoredOrder ==
    [][ ( /\ FwdAnswered
          /\ fw'.http.success = JTrue
          /\ fw'.http.forwarded = JTrue )
        => /\ orders'[fw.orderId].status = "processing"
           /\ orders'[fw.orderId].external_order_id # JNull
           /\ orders'[fw.orderId].external_order_id = fw'.http.externalOrderId
      ]_vars

----------------------------------------------------------------------------
(* Claims about sync-order-status *)

\* two texts that differ at most in the case of their letters
EqualsIgnoringCase(a, b) ==
    /\ Len(a) = Len(b)
    /\ \A k \in 1..Len(a) :
          \/ a[k] = b[k]
          \/ \E j \in 1..26 : {a[k], b[k]} = {UpperChars[j], LowerChars[j]}

\* the table of the status vocabulary
ClaimedStatus(current, status) ==
    IF status.t # "str" THEN current
    ELSE IF EqualsIgnoringCase(status.s, S_completed) THEN "completed"
    ELSE IF EqualsIgnoringCase(status.s, S_partial) THEN "partial"
    ELSE IF EqualsIgnoringCase(status.s, S_cancelled) THEN "cancelled"
    ELSE IF EqualsIgnoringCase(status.s, S_canceled) THEN "cancelled"
    ELSE IF EqualsIgnoringCase(status.s, S_in_progress) THEN "processing"
    ELSE IF EqualsIgnoringCase(status.s, S_inprogress) THEN "processing"
    ELSE IF EqualsIgnoringCase(status.s, S_processing) THEN "processing"
    ELSE IF EqualsIgnoringCase(status.s, S_pending) THEN "pending"
    ELSE current

\* the iterations in which the sweep got a status response that is no error
Answered(w) == {k \in DOMAIN w.log : w.log[k].outcome \in {"nochange", "updated", "dberror"}}

NoDbError(w) == \A k \in DOMAIN w.log : w.log[k].outcome # "dberror"

Present(v) == v.t \notin {"undef", "null"}

\* C5: in a sweep where the provider call of exactly one selected order k
\* fails and the response of every other selected order implies a change,
\* the sweep is not ended by the failure: it goes through all its orders and
\* returns its summary; with every update applied, each other order is
\* updated and the summary reports errors = 1, whatever the position of k.
C5_Scenario(w, k) ==
    /\ k \in DOMAIN w.sel
    /\ ProviderUsable(w.sel[k])
    /\ answers[w.sel[k].id] = CallFails
    /\ \A j \in DOMAIN w.sel \ {k} :
          LET a == answers[w.sel[j].id] IN
          /\ ProviderUsable(w.sel[j])
          /\ a.kind = "json"
          /\ a.error = Undef
          /\ \/ ClaimedStatus(w.sel[j].status, a.status) # w.sel[j].status
             \/ Present(a.start_count)
             \/ Present(a.remains)

C5_FailureIsolated ==
    \A s \in Sweeps : \A k \in DOMAIN sw[s].sel :
        LET w == sw[s] IN
        C5_Scenario(w, k) =>
            /\ \A j \in DOMAIN w.log \ {k} : w.log[j].outcome \in {"updated", "dberror"}
            /\ w.pc = "done" =>
                 /\ Len(w.log) = Len(w.sel)
                 /\ w.http.status = 200
                 /\ w.http.total = Len(w.sel)
            /\ (w.pc = "done" /\ NoDbError(w)) =>
                 /\ w.http.errors = 1
                 /\ w.http.synced = Len(w.sel) - 1
                 /\ \A j \in DOMAIN w.sel \ {k} :
                       /\ w.log[j].outcome = "updated"
                       /\ orders[w.sel[j].id] # orders0[w.sel[j].id]

C5_Witness ==
    \E s \in Sweeps :
        /\ sw[s].pc = "done"
        /\ Len(sw[s].sel) = MaxOrders
        /\ C5_Scenario(sw[s], 1)
        /\ NoDbError(sw[s])
        /\ sw[s].http.errors = 1
        /\ sw[s].http.synced = MaxOrders - 1

\* C6: the status the sweep derives from a response is the one of the
\* vocabulary table, letter case ignored: completed; partial; cancelled for
\* cancelled and canceled; processing for in progress, inprogress and
\* processing; pending; and the order's current status for any other text
\* and for an absent status.
C6_StatusMapping ==
    \A s \in Sweeps :
        /\ \A k \in Answered(sw[s]) :
              sw[s].log[k].newStatus =
                  ClaimedStatus(sw[s].sel[k].status, answers[sw[s].log[k].id].status)
        /\ sw[s].pc = "write" =>
              sw[s].newStatus =
                  ClaimedStatus(sw[s].sel[sw[s].i].status, answers[sw[s].sel[sw[s].i].id].status)

C6_Witness ==
    \E s \in Sweeps : \E k \in Answered(sw[s]) :
        /\ answers[sw[s].log[k].id].status = Str(<<"C", "A", "N", "C", "E", "L", "E", "D">>)
        /\ sw[s].log[k].newStatus = "cancelled"

\* the integer a count of the response stands for, when it is a number or
\* the decimal text of one
IntegerSent(v) ==
    CASE v = Num(0) -> 0
      [] v = Num(40) -> 40
      [] v = Str(<<"0">>) -> 0
      [] v = Str(<<"1", "0">>) -> 10
      [] v = Str(<<"4", "0">>) -> 40
      [] OTHER -> -1

\* C7: for a status response that is no error, each of start_count and
\* remains that the response carries (not null) is in the update the sweep
\* issues, whether or not the status changes or is recognized; a count that
\* is a number or its decimal text is written as that integer, and is what
\* the order row holds once the update is applied.
C7_CountersWritten ==
    \A s \in Sweeps : \A k \in Answered(sw[s]) :
        LET e == sw[s].log[k]
            a == answers[e.id]
        IN \A c \in {"start_count", "remains"} :
              /\ Present(a[c]) => c \in DOMAIN e.upd
              /\ IntegerSent(a[c]) >= 0 =>
                    /\ e.upd[c] = Num(IntegerSent(a[c]))
                    /\ e.outcome = "updated" => orders[e.id][c] = Num(IntegerSent(a[c]))

C7_Witness ==
    /\ orders0[1].status = "processing"
    /\ orders0[1].remains = JNull
    /\ answers[1] = StatusJson(Undef, Str(<<"P", "a", "r", "t", "i", "a", "l">>), Undef, Str(<<"4", "0">>))
    /\ orders[1].status = "partial"
    /\ orders[1].remains = Num(40)

\* the row of order o after one sweep that ran alone, its update applied
AfterOneSweep(o) ==
    LET row == orders0[o]
        a   == answers[o]
    IN IF Selected(row) /\ ProviderUsable(row) /\ a.kind = "json" /\ ~Truthy(a.error)
         THEN ApplyUpdate(row, BuildUpdateData(row, a))
         ELSE row

\* C8: when the two sweeps have run, overlapping in any way, against
\* provider responses that stay the same, and their updates were applied,
\* every order row is what a single sweep alone leaves.
C8_OverlapIdempotent ==
    (\A s \in Sweeps : sw[s].pc = "done" /\ sw[s].http.status = 200 /\ NoDbError(sw[s]))
    => \A o \in DOMAIN orders : orders[o] = AfterOneSweep(o)

C8_Witness ==
    /\ \A s \in Sweeps : sw[s].pc = "done" /\ NoDbError(sw[s])
    /\ \E o \in DOMAIN orders :
          /\ \A s \in Sweeps : \E k \in DOMAIN sw[s].log :
                sw[s].log[k].id = o /\ sw[s].log[k].outcome = "updated"
          /\ orders[o] # orders0[o]
          /\ orders[o] = AfterOneSweep(o)

\* C9: a sweep that waits for a provider's answer always gets on: the call
\* ends, by an answer or by a timeout, so that the sweep reaches its summary.
C9_SweepNeverStalls ==
    \A s \in Sweeps : sw[s].pc = "fetch" => ENABLED SyncFetch(s)

\* C15: an order whose provider response carried an error is cancelled, in a
\* forward and in a sweep, and the sweep that met it goes through all the
\* orders it selected and returns its summary.
C15_BusinessErrorTerminal ==
    /\ ( /\ fw.pc = "done"
         /\ fw.apiResponse.kind = "json"
         /\ Truthy(fw.apiResponse.error)
         /\ fw.dbOk )
       => orders[fw.orderId].status = "cancelled"
    /\ \A s \in Sweeps :
          sw[s].pc = "done" /\ sw[s].http.status = 200 =>
             /\ Len(sw[s].log) = Len(sw[s].sel)
             /\ \A k \in DOMAIN sw[s].log :
                   sw[s].log[k].outcome = "error" =>
                      orders[sw[s].log[k].id].status = "cancelled"

\* the orders a sweep has selected, and those it has handled so far
SelectedIds(w) == {w.sel[k].id : k \in DOMAIN w.sel}
HandledIds(w) == {w.log[k].id : k \in DOMAIN w.log}

\* the row is one the reconciler is to ask about
Reconcilable(row) ==
    row.external_order_id # JNull /\ row.status \in {"pending", "processing"}

NothingToWrite(w) ==
    /\ w.pc = "fetch"
    /\ ProviderUsable(w.sel[w.i])
    /\ LET a == answers[w.sel[w.i].id] IN
         /\ a.kind = "json"
         /\ ~Truthy(a.error)
         /\ ClaimedStatus(w.sel[w.i].status, a.status) = w.sel[w.i].status
         /\ ~Present(a.start_count)
         /\ ~Present(a.remains)

\* C23: for a selected order whose mapped status equals its status and whose
\* response has neither start_count nor remains, the sweep issues no write
\* (the row stays as it is) and counts the order neither as synced nor as
\* an error
C23_NoOpNoWrite ==
    [][ \A s \in Sweeps : (NothingToWrite(sw[s]) /\ sw'[s] # sw[s]) =>
          /\ orders' = orders
          /\ sw'[s].pc # "write"
          /\ sw'[s].syncedCount = sw[s].syncedCount
          /\ sw'[s].errorCount = sw[s].errorCount
          /\ sw'[s].log[Len(sw'[s].log)].outcome = "nochange"
      ]_vars

\* a sweep ended with nothing counted after the provider reported the
\* status the order has, in capitals
C23_Witness ==
    \E s \in Sweeps :
        /\ sw[s].pc = "done"
        /\ sw[s].http = [status |-> 200, total |-> 1, synced |-> 0, errors |-> 0]
        /\ sw[s].log[1].outcome = "nochange"
        /\ answers[1] = StatusJson(Undef, Str(<<"P", "R", "O", "C", "E", "S", "S", "I", "N", "G">>),
                                   Undef, JNull)
        /\ orders = orders0
        /\ orders[1].status = "processing"

\* the response's status is the word pending, in any letter case
ReportsPending(a) == a.status.t = "str" /\ EqualsIgnoringCase(a.status.s, S_pending)

\* C29 as stated: no step of a sweep takes an order that has an external id
\* from processing back to pending, whatever the provider reports
C29_NeverBackToPending ==
    [][ \A o \in DOMAIN orders :
          (orders[o].external_order_id # JNull /\ orders[o].status = "processing")
          => orders'[o].status # "pending"
      ]_vars

\* C29: for an order a sweep selected in processing and whose response is no
\* error, the sweep's update sets the status to pending exactly when the
\* provider's status is the word pending in any letter case; that update
\* applied, the row is pending, and an update made after any other response
\* does not take the row to pending
C29_PendingOnlyWhenReported ==
    [][ \A s \in Sweeps :
          LET w     == sw[s]
              order == w.sel[w.i]
              a     == answers[order.id]
          IN
          /\ ( /\ w.pc = "fetch" /\ sw'[s] # w
               /\ order.status = "processing"
               /\ ProviderUsable(order)
               /\ a.kind = "json" /\ ~Present(a.error) )
             => ( ReportsPending(a)
                  <=> /\ sw'[s].pc = "write"
                      /\ "status" \in DOMAIN sw'[s].updateData
                      /\ sw'[s].updateData.status = "pending" )
          /\ ( /\ w.pc = "write" /\ sw'[s] # w
               /\ order.status = "processing"
               /\ sw'[s].log[Len(sw'[s].log)].outcome = "updated" )
             => /\ ReportsPending(a) => orders'[order.id].status = "pending"
                /\ (~ReportsPending(a) /\ orders[order.id].status # "pending")
                      => orders'[order.id].status # "pending"
      ]_vars

\* a sweep has set an order in processing to pending on the answer PENDING
C29_Witness ==
    \E s \in Sweeps :
        /\ sw[s].pc = "done"
        /\ Len(sw[s].log) = 1
        /\ sw[s].log[1].outcome = "updated"
        /\ orders0[1].status = "processing"
        /\ orders0[1].external_order_id # JNull
        /\ answers[1] = StatusJson(Undef, Str(<<"P", "E", "N", "D", "I", "N", "G">>), Undef, Undef)
        /\ DOMAIN sw[s].log[1].upd = {"status"}
        /\ sw[s].log[1].upd.status = "pending"
        /\ orders[1].status = "pending"

\* the iterations of a sweep that ended in one of the outcomes
Outcomes(w, outcomes) == {k \in DOMAIN w.log : w.log[k].outcome \in outcomes}

\* the counts of a returned answer are as the claim has them
Accounted(w) ==
    /\ w.http.total = Len(w.sel)
    /\ w.http.synced = Cardinality(Outcomes(w, {"updated"}))
    /\ w.http.synced + w.http.errors <= w.http.total - Cardinality(Outcomes(w, {"skipped"}))

\* C30 as stated: in the answer of every sweep that returns, total is the
\* number of selected orders, synced the number of rows written, no order is
\* counted twice and a skipped order is counted neither as synced nor as error
C30_SummaryAccounting ==
    \A s \in Sweeps :
        (sw[s].pc = "done" /\ sw[s].http.status = 200) => Accounted(sw[s])

\* C30: the answer of a sweep that selected at least one order is accounted
\* as above; the answer of a sweep that selected none carries synced = 0 and
\* neither total nor errors
C30_SummaryOfSelection ==
    \A s \in Sweeps :
        (sw[s].pc = "done" /\ sw[s].http.status = 200) =>
            IF Len(sw[s].sel) > 0
              THEN Accounted(sw[s])
              ELSE sw[s].http = [status |-> 200, total |-> NoField,
                                 synced |-> 0, errors |-> NoField]

\* a sweep over two orders has skipped one and written the other
C30_Witness ==
    \E s \in Sweeps :
        /\ sw[s].pc = "done"
        /\ sw[s].http = [status |-> 200, total |-> 2, synced |-> 1, errors |-> 0]
        /\ Cardinality(Outcomes(sw[s], {"skipped"})) = 1
        /\ Cardinality(Outcomes(sw[s], {"updated"})) = 1

----------------------------------------------------------------------------
(* Claims about the life of an order *)

\* the step is a forward of order o that handled the provider's answer
ForwardAnswered(o) == FwdAnswered /\ fw.orderId = o

\* ... an answer without error, stored with an external id
ForwardStored(o) ==
    /\ ForwardAnswered(o)
    /\ ~Truthy(fw'.apiResponse.error)
    /\ orders'[o].external_order_id # JNull
    /\ orders'[o].external_order_id = fw'.http.externalOrderId

\* ... an answer with a provider-reported error
ForwardRefused(o) == ForwardAnswered(o) /\ Truthy(fw'.apiResponse.error)

\* the step is a reconciliation write of order o
SweepWrote(o) ==
    \E s \in Sweeps : sw[s].pc = "write" /\ sw'[s] # sw[s] /\ sw[s].sel[sw[s].i].id = o

\* the step is the admin's update of order o
AdminWrote(o) == adm.updating = o /\ adm' = AdmIdle

StatusChanged(o) == o \in DOMAIN orders /\ orders'[o].status # orders[o].status

\* C14, as claimed: pending becomes processing only by a successful forward
\* that sets the external id; completed, partial or cancelled are set only
\* by a reconciliation write, an admin update, or (cancelled) a forward that
\* got a provider-reported error; nothing else changes a status.
C14_LifecycleAsClaimed ==
    [][ \A o \in OrderIds : StatusChanged(o) =>
          \/ /\ orders[o].status = "pending"
             /\ orders'[o].status = "processing"
             /\ ForwardStored(o)
          \/ /\ orders'[o].status \in {"completed", "partial", "cancelled"}
             /\ \/ SweepWrote(o)
                \/ AdminWrote(o)
                \/ orders'[o].status = "cancelled" /\ ForwardRefused(o)
      ]_vars

\* C14, amended: a status changes only by a successful forward (to
\* processing, together with the external id), a forward that got a
\* provider-reported error (to cancelled), a reconciliation write or an admin
\* update, the last two to any status; a new order starts in pending.
C14_Lifecycle ==
    [][ /\ \A o \in OrderIds : StatusChanged(o) =>
             \/ orders'[o].status = "processing" /\ ForwardStored(o)
             \/ orders'[o].status = "cancelled" /\ ForwardRefused(o)
             \/ SweepWrote(o)
             \/ AdminWrote(o)
        /\ \A o \in DOMAIN orders' \ DOMAIN orders : orders'[o].status = "pending"
      ]_vars

C14_Witness ==
    \E o \in DOMAIN orders :
        /\ orders[o].status = "completed"
        /\ orders[o].external_order_id = Str(<<"4", "2">>)
        /\ sw[1].pc = "done"
        /\ \E k \in DOMAIN sw[1].log :
              /\ sw[1].log[k].id = o
              /\ sw[1].log[k].outcome = "updated"
              /\ sw[1].log[k].newStatus = "completed"
        /\ adm = AdmIdle

\* C25: a sweep does not change a status that was set to completed or
\* cancelled after the sweep took its selection: a reconciliation write never
\* takes an order out of a terminal status
C25_TerminalKeptBySweep ==
    [][ \A o \in DOMAIN orders :
          (SweepWrote(o) /\ orders[o].status \in {"completed", "cancelled"}) =>
              orders'[o].status = orders[o].status
      ]_vars

\* C27: with orders created, forwarded and reconciled only (no admin status
\* update), an order in processing, completed or partial has an external
\* id, and an external id once set is never set back to null
C27_StatusImpliesExternalId ==
    [][ /\ \A o \in DOMAIN orders' :
             orders'[o].status \in {"processing", "completed", "partial"} =>
                 orders'[o].external_order_id # JNull
        /\ \A o \in DOMAIN orders :
             orders[o].external_order_id # JNull => orders'[o].external_order_id # JNull
      ]_vars

\* an order forwarded twice and then completed by a sweep, beside an order
\* that was never forwarded
C27_Witness ==
    /\ Len(orders) = 2
    /\ orders[1].status = "completed"
    /\ orders[1].external_order_id = Str(<<"7">>)
    /\ orders[2].status = "pending"
    /\ orders[2].external_order_id = JNull
    /\ sw[1].pc = "done"
    /\ sw[1].http.synced = 1

----------------------------------------------------------------------------
(* Claims about rate sync *)

\* the job is at a service whose fetched rate is its cached rate
JobRateUnchanged ==
    /\ rs.pc = "apply"
    /\ rs' # rs
    /\ RateLookup(catalogs[rs.providers[rs.p]].items, rs.todo[rs.k].api_service_id.s)
          = rs.todo[rs.k].original_rate

\* the admin's sync is at a service whose fetched rate is its cached rate
AdminRateUnchanged ==
    /\ av.pc = "apply"
    /\ av' # av
    /\ AdminRateLookup(FetchProviderServices(av.providerIds[av.p]).services,
                       av.todo[av.k].api_service_id.s) = av.todo[av.k].original_rate

\* C16: a sweep at a linked service whose fetched rate equals the cached
\* original_rate issues no write; the second run of a sweep whose first run
\* had no failed write, over the same catalogs, issues no write and reports
\* updated = 0.
C16_RateSyncIdempotent ==
    [][ /\ JobRateUnchanged => rs'.writes = rs.writes /\ svcT' = svcT
        /\ AdminRateUnchanged => av'.writes = av.writes /\ svcT' = svcT
        /\ (rs'.pc = "done" /\ rs'.run = 2 /\ ~rs'.prevFailed /\ rs'.http.status = 200)
              => rs'.writes = 0 /\ rs'.http.updated = 0
        /\ (av'.pc = "done" /\ av'.run = 2 /\ ~av'.prevFailed)
              => av'.writes = 0 /\ av'.updatedCount = 0
      ]_vars

C16_Witness ==
    /\ rs.pc = "done" /\ rs.run = 2 /\ ~rs.prevFailed /\ rs.http = [status |-> 200, updated |-> 0]
    /\ rs.writes = 0
    /\ svcT.job["s1"].original_rate = Num(50)
    /\ svcT.admin["s1"].original_rate = Num(300)
    /\ av.run = 0

FrameColumns ==
    {"api_service_id", "api_provider_id", "price_per_1000", "min_quantity", "max_quantity",
     "is_active"}

\* C17: a step of a rate sync, the job's or the admin's, changes no column
\* of a service other than original_rate, adds or removes no service, and
\* leaves the orders as they are.
C17_RateSyncFrame ==
    [][ /\ \A w \in DOMAIN svcT :
             /\ DOMAIN svcT'[w] = DOMAIN svcT[w]
             /\ \A sid \in DOMAIN svcT[w] :
                   /\ DOMAIN svcT'[w][sid] = DOMAIN svcT[w][sid]
                   /\ \A c \in FrameColumns : svcT'[w][sid][c] = svcT[w][sid][c]
        /\ orders' = orders
      ]_vars

C17_Witness ==
    /\ rs.pc = "done" /\ rs.totalUpdated = 1
    /\ av.pc = "done" /\ av.updatedCount = 2
    /\ svcT.job["s1"].original_rate = Num(50)
    /\ svcT.job["s1"].price_per_1000 = 120
    /\ svcT.admin["s2"].original_rate = Num(50)
    /\ svcT.admin["s2"].price_per_1000 = 120

\* C18: the job and the admin's sync, each run once without a failed write
\* from the same services and catalogs, select the same (provider, service)
\* pairs and leave the same original_rate in every service.
C18_SamePairsSameRates ==
    ( /\ rs.pc = "done" /\ rs.run = 1 /\ ~rs.failed
      /\ av.pc = "done" /\ av.run = 1 /\ ~av.failed )
    => /\ rs.pairs = av.pairs
       /\ \A sid \in DOMAIN svcT.job :
             svcT.job[sid].original_rate = svcT.admin[sid].original_rate

----------------------------------------------------------------------------
(* Claims about the import of services *)

\* a use of the Import button
ImportClicked == imp'.clicks # imp.clicks

\* the import must be refused: nothing selected, or no category chosen
MustRefuse == imp.selectedServices = {} \/ imp.selectedCategory = ""

\* C19: an import attempt with an empty selection, or with a selection but
\* no target category, inserts no services row and leaves the fetched list,
\* the selection, the multiplier and the markup as they were
C19_ImportRefusal ==
    [][ (ImportClicked /\ MustRefuse) =>
          /\ inserted' = inserted
          /\ imp'.fetchedServices = imp.fetchedServices
          /\ imp'.selectedServices = imp.selectedServices
          /\ imp'.currencyMultiplier = imp.currencyMultiplier
          /\ imp'.priceMarkup = imp.priceMarkup ]_vars

\* an import was refused for the missing category, with services selected,
\* and an import was refused with nothing selected
C19_Witness ==
    /\ imp.clicks >= 1
    /\ imp.toast = "No category selected"
    /\ imp.selectedServices # {}
    /\ imp.selectedCategory = ""
    /\ imp.fetchedServices # <<>>
    /\ imp.priceMarkup = 50
    /\ inserted = <<>>

----------------------------------------------------------------------------
(* Claims about the provider's api_key *)

\* the key can be read in the text: as it is, or as the URL carries it
Exposes(text, api_key) ==
    Contains(text, api_key) \/ Contains(text, UrlEncode(api_key))

\* C20: the provider's api_key appears in no log line and in no error
\* message returned to a caller, for catalog fetch, order submission and
\* status check, whatever the key's characters and the provider's answer
C20_KeyNeverExposed ==
    \A text \in klog.logs \cup klog.errors : ~Exposes(text, klog.api_key)

----------------------------------------------------------------------------
(* Claims about the balance *)

\* C26: a payment is credited at most once, whatever the interleaving of
\* approve and reject of two admins, and only if its stored status was
\* pending when the approval began: no approval begins for a payment that is
\* stored as approved or rejected, and with no order placed and no
\* adjustment made the balance has received at most the payment's amount
C26_CreditedAtMostOnce ==
    [][ /\ \A a \in Admins :
             (approve[a].pc = "idle" /\ approve'[a].pc = "read") =>
                 payments[approve'[a].payment] = "pending"
        /\ (Len(orders') = 0 /\ adjust'.count = 0) =>
             applied' <= PaymentAmount(1)
      ]_vars

\* the step inserts an order
OrderCreated == Len(orders') = Len(orders) + 1

\* the step is a placement that the form refused
PlacementRefused ==
    /\ place' # place
    /\ place'.pc = "done"
    /\ place'.result \in {"invalid", "quantity", "insufficient"}

\* C24: a placement with a quantity below min_quantity or above
\* max_quantity of the service, or with an amount above the balance the form
\* holds, inserts no order, writes no balance and calls no provider; every
\* order is created with a quantity within the limits of its service and an
\* amount of quantity / 1000 * price_per_1000 that the balance covers
C24_PlacementValidated ==
    [][ /\ OrderCreated =>
             LET row == orders'[Len(orders')] IN
             /\ row.quantity >= catalog[row.service_id].min_quantity
             /\ row.quantity <= catalog[row.service_id].max_quantity
             /\ row.amount = totalAmount(row.service_id, row.quantity)
             /\ row.amount <= profile
             /\ row.status = "pending"
        /\ PlacementRefused =>
             /\ orders' = orders
             /\ balance' = balance
             /\ fw' = fw
      ]_vars

\* after an order of 3000 for 150, a placement was refused for the balance
C24_Witness ==
    /\ place = PlaceEnded("insufficient")
    /\ Len(orders) = 1
    /\ orders[1].quantity = 3000
    /\ orders[1].amount = 150
    /\ balance = 50
    /\ profile = 50



BalanceQuiet ==
    /\ place.pc \in {"idle", "done"}
    /\ \A a \in Admins : approve[a].pc = "idle"
    /\ adjust.pc = "idle"

\* C4: once the balance operations that ran, in whatever interleaving, have
\* ended, the balance is the initial 200 plus the sum of the deltas written;
\* after one order of 50 and one approval of 100 it is 250.
C4_NoLostUpdate ==
    BalanceQuiet => balance = 200 + applied

\* C10: after a placement attempt has ended, the order row was inserted
\* exactly when the balance was debited by the order's amount.
C10_OrderAndDebitAtomic ==
    place.pc = "done" => (place.inserted <=> place.debited)

====
